---- MODULE Spec2Model ----
(***************************************************************************)
(* The memory engine of askgloom/toolkit: MemoryStore, EpisodicMemory and  *)
(* SemanticMemory (src/src/memory/*.cpp), as state machines.               *)
(*                                                                         *)
(* Conventions.                                                            *)
(*  - A std::optional<T> is a set with at most one element ({} is nullopt). *)
(*  - A std::string content is a tuple of characters, so that find() is    *)
(*    computed; ids, tags and metadata values are atoms (strings).         *)
(*  - A std::unordered_map is a function on the set of its keys.           *)
(*  - A time_point is an integer number of clock ticks; TicksPerHour ticks *)
(*    make one hour, which is what duration_cast<hours> truncates to.      *)
(*  - A double score is a fixed-point integer: log1p comes from a table in *)
(*    1/1000, a score is in 1/10000.                                       *)
(***************************************************************************)
EXTENDS Integers, Sequences, FiniteSets, TLC

VARIABLES
    capacity,   \* MemoryStore::Impl::capacity
    memories,   \* MemoryStore::Impl::memories : id -> Memory
    ep_capacity,                \* EpisodicMemory::Impl::capacity
    max_memories_per_episode,   \* EpisodicMemory::Impl::max_memories_per_episode
    episodes,                   \* EpisodicMemory::Impl::episodes : id -> Episode
    ep_counter,                 \* the static counter of EpisodicMemory::generate_id
    ep_peer,                    \* Impl::episodes of a second EpisodicMemory object
    sem_capacity,               \* SemanticMemory::Impl::capacity
    nodes,                      \* SemanticMemory::Impl::nodes : id -> Node
    sem_counter,                \* the static counter of SemanticMemory::generate_id
    sem_peer,                   \* Impl::nodes of a second SemanticMemory object
    now,        \* std::chrono::system_clock::now(), in ticks
    last,       \* the call that returned last: its name, arguments and result
    calls,      \* the number of calls made so far
    pc,         \* per thread: the call it is in and where in it, [op, at]
    lock,       \* per store, Impl::mutex : [writer : set of threads, readers : set of threads]
    local,      \* per thread: the locals of the call it is in
    bumps,      \* per id: the access_count that the completed calls add up to
    hist,       \* what has been called so far: [ops, ids, dup, overlap]
    transactions_,          \* State::transactions_ : signature -> Transaction
    cache_,                 \* State::cache_ : key -> CacheEntry
    transactions_mutex_,    \* State::transactions_mutex_ : the set of threads that own it
    cache_mutex_            \* State::cache_mutex_ : the set of threads that own it

vars == <<capacity, memories, ep_capacity, max_memories_per_episode, episodes, ep_counter,
          ep_peer, sem_capacity, nodes, sem_counter, sem_peer,
          now, last, calls, pc, lock, local, bumps, hist,
          transactions_, cache_, transactions_mutex_, cache_mutex_>>

\* The state of the MemoryStore, of the EpisodicMemory, of the SemanticMemory
memVars == <<capacity, memories>>

epVars == <<ep_capacity, max_memories_per_episode, episodes, ep_counter, ep_peer>>

semVars == <<sem_capacity, nodes, sem_counter, sem_peer>>

Stores == {"memory", "episodic", "semantic", "episodic_peer", "semantic_peer"}

\* The state of the threads, of the mutex and of the bookkeeping about them
concVars == <<pc, lock, local, bumps, hist>>

\* The state of the solana::toolkit::State object
stateVars == <<transactions_, cache_, transactions_mutex_, cache_mutex_>>

----------------------------------------------------------------------------
(* Bounds of the model *)

MaxCapacity == 2

BigCapacity == 10

MaxCalls == 3

MaxTime == 1

MaxAccess == 2

TicksPerHour == 1

NumThreads == 2

\* Memory ids (std::string in the source) are numbered. The callers use
\* three ids: two that a full store of BigCapacity records holds, one that
\* it does not hold.
Ids == {1, 2, BigCapacity + 1}

Threads == 1..NumThreads

Capacities == (1..MaxCapacity) \cup {BigCapacity}

----------------------------------------------------------------------------
(* Helpers *)

None == {}

Some(v) == {v}

Min(a, b) == IF a < b THEN a ELSE b

\* std::string::find(needle) != npos
Find(hay, needle) ==
    \E i \in 0..(Len(hay) - Len(needle)) :
        SubSeq(hay, i + 1, i + Len(needle)) = needle

\* std::log1p, in 1/1000
Log1pMilli(n) ==
    CASE n = 0 -> 0
      [] n = 1 -> 693
      [] n = 2 -> 1099
      [] n = 3 -> 1386
      [] n = 4 -> 1609
      [] n = 5 -> 1792
      [] n = 6 -> 1946
      [] n = 7 -> 2079
      [] n = 8 -> 2197
      [] OTHER -> 2303 + 90 * (n - 9)

\* duration_cast<std::chrono::hours>(later - earlier).count()
Hours(later, earlier) == (later - earlier) \div TicksPerHour

\* 1.0 / (1.0 + std::log1p(hours)), in 1/1000
DecayMilli(hours) == 1000000 \div (1000 + Log1pMilli(hours))

----------------------------------------------------------------------------
(* MemoryStore: pure parts (src/src/memory/memory_store.cpp) *)

\* The keys of an unordered_map
Keys(mems) == DOMAIN mems

\* The map restricted to the keys in S (the others erased)
Restrict(mems, S) == [i \in S |-> mems[i]]

\* MemoryStore::calculate_relevance, in 1/10000
calculate_relevance(memory, t) ==
    LET recency_score == DecayMilli(Hours(t, memory.timestamp))
        access_score == Log1pMilli(memory.access_count)
        importance_score == memory.importance
    IN  (recency_score * 4) + (access_score * 3) + (importance_score * 3)

\* MemoryStore::calculate_retention_score, in 1/10000
calculate_retention_score(memory, t) ==
    LET age_score == DecayMilli(Hours(t, memory.timestamp))
        access_recency_score == DecayMilli(Hours(t, memory.last_accessed))
        access_frequency_score == Log1pMilli(memory.access_count)
        importance_score == memory.importance
    IN  (age_score * 2) + (access_recency_score * 3)
        + (access_frequency_score * 2) + (importance_score * 3)

\* size_t to_remove = memories.size() - (capacity * 0.9): the subtraction is
\* done in double and the result truncated to size_t (count >= cap here, so
\* the difference is positive).
to_remove(count, cap) == (10 * count - 9 * cap) \div 10

\* std::sort by ascending score followed by erasing the first n entries: the
\* key sets that can be left. Entries of equal score are in any order (the
\* map's iteration order is unspecified and std::sort is not stable).
RECURSIVE erase_lowest(_, _, _)
erase_lowest(scores, keys, n) ==
    IF n = 0 \/ keys = {}
    THEN {keys}
    ELSE UNION { erase_lowest(scores, keys \ {i}, n - 1) :
                   i \in { i \in keys : \A j \in keys : scores[i] <= scores[j] } }

\* MemoryStore::prune: the maps it can leave
prune(mems, cap, t) ==
    IF Cardinality(Keys(mems)) < cap
    THEN {mems}
    ELSE LET scores == [i \in Keys(mems) |-> calculate_retention_score(mems[i], t)]
         IN  { Restrict(mems, kept) :
                 kept \in erase_lowest(scores, Keys(mems),
                                       to_remove(Cardinality(Keys(mems)), cap)) }

\* insert as unordered_map::emplace would do it: an id already held keeps its
\* old record
insert_emplace(mems, memory, t) ==
    LET mem == [memory EXCEPT !.timestamp = t, !.last_accessed = t]
    IN  [i \in Keys(mems) \cup {mem.id} |-> IF i \in Keys(mems) THEN mems[i] ELSE mem]

\* insert with the key read from the moved-from record: every record lands
\* under the empty id (written 0)
insert_moved_from_key(mems, memory, t) ==
    LET mem == [memory EXCEPT !.timestamp = t, !.last_accessed = t]
    IN  [i \in Keys(mems) \cup {0} |-> IF i = 0 THEN mem ELSE mems[i]]

\* Lines 29-34 of store: the copy is stamped and inserted or replaces by id
insert(mems, memory, t) ==
    LET mem == [memory EXCEPT !.timestamp = t, !.last_accessed = t]
    IN  [i \in Keys(mems) \cup {mem.id} |-> IF i = mem.id THEN mem ELSE mems[i]]

\* matches_query asking for every tag of the query instead of any
matches_query_all_tags(memory, query) ==
    /\ ~(query.content # <<>> /\ ~Find(memory.content, query.content))
    /\ (query.tags # {} => \A tag \in query.tags : tag \in memory.tags)
    /\ ~(query.start_time # None /\ \E s \in query.start_time : memory.timestamp < s)
    /\ ~(query.end_time # None /\ \E e \in query.end_time : memory.timestamp > e)

\* matches_query with the end of the time range excluded
matches_query_end_excluded(memory, query) ==
    /\ (query.content # <<>> => Find(memory.content, query.content))
    /\ (query.tags # {} => query.tags \cap memory.tags # {})
    /\ ~(query.start_time # None /\ \E s \in query.start_time : memory.timestamp < s)
    /\ ~(query.end_time # None /\ \E e \in query.end_time : memory.timestamp >= e)

\* MemoryStore::matches_query
matches_query(memory, query) ==
    /\ ~(query.content # <<>> /\ ~Find(memory.content, query.content))
    /\ (query.tags # {} => \E tag \in query.tags : tag \in memory.tags)
    /\ ~(query.start_time # None /\ \E s \in query.start_time : memory.timestamp < s)
    /\ ~(query.end_time # None /\ \E e \in query.end_time : memory.timestamp > e)

\* The first n elements of a sequence (vector::resize to a smaller size)
Take(seq, n) == SubSeq(seq, 1, Min(n, Len(seq)))

\* std::sort with the comparison reversed: ascending relevance
RECURSIVE sort_ascending(_, _)
sort_ascending(relevance, keys) ==
    IF keys = {}
    THEN {<<>>}
    ELSE UNION { { <<i>> \o s : s \in sort_ascending(relevance, keys \ {i}) } :
                   i \in { i \in keys : \A j \in keys : relevance[i] <= relevance[j] } }

\* std::sort by descending relevance: the orders of the keys it can produce,
\* entries of equal relevance in any order
RECURSIVE sort_descending(_, _)
sort_descending(relevance, keys) ==
    IF keys = {}
    THEN {<<>>}
    ELSE UNION { { <<i>> \o s : s \in sort_descending(relevance, keys \ {i}) } :
                   i \in { i \in keys : \A j \in keys : relevance[i] >= relevance[j] } }

\* Lines 53-70 of search: the vectors of copies it can build. The matching
\* records are collected, sorted by descending relevance and cut to limit.
search_results(mems, query, limit, t) ==
    LET matching == { i \in Keys(mems) : matches_query(mems[i], query) }
        relevance == [i \in matching |-> calculate_relevance(mems[i], t)]
    IN  { LET results == [k \in 1..Len(s) |-> mems[s[k]]]
          IN  IF limit > 0 /\ Len(results) > limit THEN Take(results, limit) ELSE results
          : s \in sort_descending(relevance, matching) }

\* it->second.last_accessed = now(); it->second.access_count++
touch(memory, t) ==
    [memory EXCEPT !.last_accessed = t, !.access_count = memory.access_count + 1]

\* The access update loop running over every record of the map
touch_all_held(mems, results, t) ==
    [i \in Keys(mems) |-> touch(mems[i], t)]

\* Lines 73-79 of search: every result still in the map is touched
touch_all(mems, results, t) ==
    LET hit == { results[k].id : k \in 1..Len(results) }
    IN  [i \in Keys(mems) |-> IF i \in hit THEN touch(mems[i], t) ELSE mems[i]]

\* update assigning all three fields, empty where the update supplies none
apply_update_all_fields(memory, update, t) ==
    LET c == IF update.content # None THEN CHOOSE v \in update.content : TRUE ELSE <<>>
        g == IF update.tags # None THEN CHOOSE v \in update.tags : TRUE ELSE {}
        m == IF update.metadata # None THEN CHOOSE v \in update.metadata : TRUE ELSE {}
    IN  [memory EXCEPT !.content = c, !.tags = g, !.metadata = m, !.last_modified = t]

\* Lines 93-97 of update
apply_update(memory, update, t) ==
    LET c == IF update.content # None THEN CHOOSE v \in update.content : TRUE ELSE memory.content
        g == IF update.tags # None THEN CHOOSE v \in update.tags : TRUE ELSE memory.tags
        m == IF update.metadata # None THEN CHOOSE v \in update.metadata : TRUE ELSE memory.metadata
    IN  [memory EXCEPT !.content = c, !.tags = g, !.metadata = m, !.last_modified = t]


----------------------------------------------------------------------------
(* Inputs of the calls *)

\* A Memory as a caller passes it to store: store overwrites timestamp and
\* last_accessed and copies every other field, access_count included.
Memory(id, content, tags, metadata, importance, access_count) ==
    [id |-> id, content |-> content, tags |-> tags, metadata |-> metadata,
     importance |-> importance, access_count |-> access_count,
     timestamp |-> 0, last_accessed |-> 0, last_modified |-> 0]

MemoryInputs ==
    { Memory(id, <<"a">>, {}, {}, 100, 0) : id \in Ids }
    \cup { Memory(id, <<"a", "b">>, {"t1"}, {<<"k", "v">>}, 900, 1) : id \in Ids }

\* MemoryUpdate: three optionals
MemoryUpdate(content, tags, metadata) ==
    [content |-> content, tags |-> tags, metadata |-> metadata]

UpdateInputs ==
    { MemoryUpdate(Some(<<"b">>), None, None),
      MemoryUpdate(None, Some({"t2"}), None),
      MemoryUpdate(None, None, Some({<<"k", "w">>})) }

\* Query: content, tags and two optional time points
Query(content, tags, start_time, end_time) ==
    [content |-> content, tags |-> tags, start_time |-> start_time, end_time |-> end_time]

\* The (query, limit) pairs the callers search with
SearchInputs ==
    { <<Query(<<>>, {}, None, None), 0>>,
      <<Query(<<>>, {}, None, None), 1>>,
      <<Query(<<"b">>, {}, None, None), 0>>,
      <<Query(<<>>, {"t1", "t2"}, None, None), 0>>,
      <<Query(<<>>, {}, Some(1), Some(1)), 0>>,
      <<Query(<<"a">>, {"t1"}, Some(0), Some(0)), 1>> }

----------------------------------------------------------------------------
(* MemoryStore: the calls of one caller, each running to its return *)

\* The stores a run does not use: empty, of capacity 1
MemoryStoreUnused ==
    /\ capacity = 1
    /\ memories = [i \in {} |-> 0]

EpisodicUnused ==
    /\ ep_capacity = 1
    /\ max_memories_per_episode = 1
    /\ episodes = [i \in {} |-> 0]
    /\ ep_counter = 0
    /\ ep_peer = <<>>

SemanticUnused ==
    /\ sem_capacity = 1
    /\ nodes = [i \in {} |-> 0]
    /\ sem_counter = 0
    /\ sem_peer = <<>>

\* State::State(): empty containers, mutexes not owned
StateUnused ==
    /\ transactions_ = [i \in {} |-> 0]
    /\ cache_ = [i \in {} |-> 0]
    /\ transactions_mutex_ = {}
    /\ cache_mutex_ = {}

\* No thread is inside a call
Idle == [op |-> "none", at |-> "idle"]

\* The threads idle, the mutex free, nothing called yet
ConcInit ==
    /\ pc = [t \in Threads |-> Idle]
    /\ lock = [s \in Stores |-> [writer |-> {}, readers |-> {}]]
    /\ local = [t \in Threads |-> <<>>]
    /\ bumps = [i \in Ids |-> 0]
    /\ hist = [ops |-> {}, ids |-> {}, dup |-> FALSE, overlap |-> FALSE]
    /\ StateUnused

\* The lock constructor of a call returns at once: nobody holds the mutex
LockIsFree(s) == lock[s].writer = {} /\ lock[s].readers = {}

\* MemoryStore::store
StoreDo(memory) ==
    LET count == Cardinality(Keys(memories))
        full == count >= capacity
    IN  \E pruned \in (IF full THEN prune(memories, capacity, now) ELSE {memories}) :
            /\ memories' = insert(pruned, memory, now)
            /\ last' = [op |-> "store", memory |-> memory, result |-> TRUE,
                        full |-> full, count |-> count,
                        erased |-> Keys(memories) \ Keys(pruned)]

\* MemoryStore::retrieve
RetrieveDo(id) ==
    IF id \in Keys(memories)
    THEN /\ memories[id].access_count < MaxAccess
         /\ memories' = [memories EXCEPT ![id] = touch(memories[id], now)]
         /\ last' = [op |-> "retrieve", id |-> id, result |-> Some(memories'[id])]
    ELSE /\ memories' = memories
         /\ last' = [op |-> "retrieve", id |-> id, result |-> None]

\* MemoryStore::search
SearchDo(query, limit) ==
    \E results \in search_results(memories, query, limit, now) :
        /\ \A k \in 1..Len(results) : results[k].access_count < MaxAccess
        /\ memories' = touch_all(memories, results, now)
        /\ last' = [op |-> "search", query |-> query, limit |-> limit, result |-> results]

\* MemoryStore::update
UpdateDo(id, update) ==
    IF id \notin Keys(memories)
    THEN /\ memories' = memories
         /\ last' = [op |-> "update", id |-> id, update |-> update, result |-> FALSE]
    ELSE /\ memories' = [memories EXCEPT ![id] = apply_update(memories[id], update, now)]
         /\ last' = [op |-> "update", id |-> id, update |-> update, result |-> TRUE]

\* remove reporting whether the id is held without erasing it
RemoveDo_no_erase(id) ==
    /\ memories' = memories
    /\ last' = [op |-> "remove", id |-> id, result |-> (id \in Keys(memories))]

\* MemoryStore::remove
RemoveDo(id) ==
    /\ memories' = Restrict(memories, Keys(memories) \ {id})
    /\ last' = [op |-> "remove", id |-> id, result |-> (id \in Keys(memories))]

\* MemoryStore::clear
ClearDo ==
    /\ memories' = Restrict(memories, {})
    /\ last' = [op |-> "clear"]

\* MemoryStore::size
SizeDo ==
    /\ memories' = memories
    /\ last' = [op |-> "size", result |-> Cardinality(Keys(memories))]

Store ==
    /\ LockIsFree("memory")
    /\ calls < MaxCalls
    /\ calls' = calls + 1
    /\ \E memory \in MemoryInputs : StoreDo(memory)
    /\ UNCHANGED <<stateVars, capacity, now, epVars, semVars, concVars>>

Retrieve ==
    /\ LockIsFree("memory")
    /\ calls < MaxCalls
    /\ calls' = calls + 1
    /\ \E id \in Ids : RetrieveDo(id)
    /\ UNCHANGED <<stateVars, capacity, now, epVars, semVars, concVars>>

Search ==
    /\ LockIsFree("memory")
    /\ calls < MaxCalls
    /\ calls' = calls + 1
    /\ \E input \in SearchInputs : SearchDo(input[1], input[2])
    /\ UNCHANGED <<stateVars, capacity, now, epVars, semVars, concVars>>

Update ==
    /\ LockIsFree("memory")
    /\ calls < MaxCalls
    /\ calls' = calls + 1
    /\ \E id \in Ids, update \in UpdateInputs : UpdateDo(id, update)
    /\ UNCHANGED <<stateVars, capacity, now, epVars, semVars, concVars>>

Remove ==
    /\ LockIsFree("memory")
    /\ calls < MaxCalls
    /\ calls' = calls + 1
    /\ \E id \in Ids : RemoveDo(id)
    /\ UNCHANGED <<stateVars, capacity, now, epVars, semVars, concVars>>

Clear ==
    /\ LockIsFree("memory")
    /\ calls < MaxCalls
    /\ calls' = calls + 1
    /\ ClearDo
    /\ UNCHANGED <<stateVars, capacity, now, epVars, semVars, concVars>>

Size ==
    /\ LockIsFree("memory")
    /\ calls < MaxCalls
    /\ calls' = calls + 1
    /\ SizeDo
    /\ UNCHANGED <<stateVars, capacity, now, epVars, semVars, concVars>>

\* The system clock advances
Tick ==
    /\ now < MaxTime
    /\ now' = now + 1
    /\ UNCHANGED <<stateVars, memVars, epVars, semVars, last, calls, concVars>>

\* A store of BigCapacity records: what BigCapacity store calls at time 0,
\* with ids 1..BigCapacity and importance rising from 0.0 (the first two
\* records alike), leave.
FullStore ==
    [i \in 1..BigCapacity |->
        Memory(i, <<"a">>, {}, {}, IF i <= 2 THEN 0 ELSE 100 * (i - 2), 0)]

\* MemoryStore::MemoryStore(capacity): an empty map, a free mutex. The runs
\* with capacity BigCapacity start from the full store.
Init ==
    /\ capacity \in Capacities
    /\ memories = IF capacity = BigCapacity THEN FullStore ELSE [i \in {} |-> 0]
    /\ EpisodicUnused
    /\ SemanticUnused
    /\ now = 0
    /\ last = [op |-> "init"]
    /\ calls = 0
    /\ ConcInit

Next ==
    \/ Store
    \/ Retrieve
    \/ Search
    \/ Update
    \/ Remove
    \/ Clear
    \/ Size
    \/ Tick

Spec == Init /\ [][Next]_vars

----------------------------------------------------------------------------
(* EpisodicMemory: pure parts (src/src/memory/episodic.cpp) *)

\* Impl::Episode::Episode(id) at time t, with the context create_episode sets
Episode(id, context, t) ==
    [id |-> id, timestamp |-> t, memories |-> <<>>, context |-> context,
     importance |-> 0, access_count |-> 0, last_accessed |-> t]

\* EpisodicMemory::calculate_memory_importance, in 1/1000
calculate_memory_importance(memory) ==
    (memory.importance * (1000 + Log1pMilli(memory.access_count))) \div 1000

RECURSIVE total_importance(_)
total_importance(mems) ==
    IF mems = <<>>
    THEN 0
    ELSE calculate_memory_importance(Head(mems)) + total_importance(Tail(mems))

\* update_episode_importance without the division by the number of records
episode_importance_total(mems) == total_importance(mems)

\* EpisodicMemory::update_episode_importance: the value it stores, in 1/1000
episode_importance(mems) ==
    total_importance(mems) \div (IF mems = <<>> THEN 1 ELSE Len(mems))

\* EpisodicMemory::calculate_relevance, in 1/10000
ep_calculate_relevance(episode, t) ==
    LET recency_score == DecayMilli(Hours(t, episode.timestamp))
        access_score == Log1pMilli(episode.access_count)
        importance_score == episode.importance
    IN  (recency_score * 3) + (access_score * 3) + (importance_score * 4)

\* EpisodicMemory::calculate_retention_score, in 1/10000
ep_calculate_retention_score(episode, t) ==
    LET age_score == DecayMilli(Hours(t, episode.timestamp))
        access_recency_score == DecayMilli(Hours(t, episode.last_accessed))
        access_frequency_score == Log1pMilli(episode.access_count)
        importance_score == episode.importance
    IN  (age_score * 2) + (access_recency_score * 3)
        + (access_frequency_score * 2) + (importance_score * 3)

\* EpisodicMemory::prune_episodes: the maps it can leave
prune_episodes(eps, cap, t) ==
    LET scores == [i \in Keys(eps) |-> ep_calculate_retention_score(eps[i], t)]
    IN  { Restrict(eps, kept) :
            kept \in erase_lowest(scores, Keys(eps), to_remove(Cardinality(Keys(eps)), cap)) }

\* The retained records collected from the last index down to the first
RECURSIVE retained_backwards(_, _, _)
retained_backwards(seq, kept, i) ==
    IF i > Len(seq)
    THEN <<>>
    ELSE retained_backwards(seq, kept, i + 1) \o (IF i \in kept THEN <<seq[i]>> ELSE <<>>)

\* The elements of seq at the indices in kept, in their order
RECURSIVE retained(_, _, _)
retained(seq, kept, i) ==
    IF i > Len(seq)
    THEN <<>>
    ELSE (IF i \in kept THEN <<seq[i]>> ELSE <<>>) \o retained(seq, kept, i + 1)

\* EpisodicMemory::prune_memories: the vectors it can leave
prune_memories(mems, max) ==
    LET scores == [i \in 1..Len(mems) |-> calculate_memory_importance(mems[i])]
    IN  { retained(mems, kept, 1) :
            kept \in erase_lowest(scores, 1..Len(mems), to_remove(Len(mems), max)) }

\* matches_query that is satisfied by one matching context pair
ep_matches_query_any_context(episode, query) ==
    /\ ~(query.start_time # None /\ \E s \in query.start_time : episode.timestamp < s)
    /\ ~(query.end_time # None /\ \E e \in query.end_time : episode.timestamp > e)
    /\ \E kv \in query.context : kv \in episode.context
    /\ (query.content # <<>> =>
           \E k \in 1..Len(episode.memories) : Find(episode.memories[k].content, query.content))

\* EpisodicMemory::matches_query
ep_matches_query(episode, query) ==
    /\ ~(query.start_time # None /\ \E s \in query.start_time : episode.timestamp < s)
    /\ ~(query.end_time # None /\ \E e \in query.end_time : episode.timestamp > e)
    /\ \A kv \in query.context : kv \in episode.context
    /\ (query.content # <<>> =>
           \E k \in 1..Len(episode.memories) : Find(episode.memories[k].content, query.content))

\* EpisodicMemory::search: the vectors of (id, memories) it can return
ep_search_results(eps, query, limit, t) ==
    LET matching == { i \in Keys(eps) : ep_matches_query(eps[i], query) }
        relevance == [i \in matching |-> ep_calculate_relevance(eps[i], t)]
    IN  { LET results == [k \in 1..Len(s) |-> <<s[k], eps[s[k]].memories>>]
          IN  IF limit > 0 /\ Len(results) > limit THEN Take(results, limit) ELSE results
          : s \in sort_descending(relevance, matching) }

\* EpisodeQuery: a context (key -> value, as a set of pairs), a content and
\* two optional time points
EpisodeQuery(context, content, start_time, end_time) ==
    [context |-> context, content |-> content,
     start_time |-> start_time, end_time |-> end_time]

----------------------------------------------------------------------------
(* EpisodicMemory: the calls of one caller, each running to its return *)

\* create_episode that inserts the new episode first and prunes afterwards
CreateEpisodeDo_prune_last(context) ==
    LET id == ep_counter + 1
        inserted == [i \in Keys(episodes) \cup {id} |->
                        IF i \in Keys(episodes) THEN episodes[i] ELSE Episode(id, context, now)]
        count == Cardinality(Keys(inserted))
        full == count >= ep_capacity
    IN  \E pruned \in (IF full THEN prune_episodes(inserted, ep_capacity, now) ELSE {inserted}) :
            /\ ep_counter' = id
            /\ episodes' = pruned
            /\ last' = [op |-> "create_episode", context |-> context, result |-> id,
                        full |-> full, count |-> count,
                        erased |-> Keys(inserted) \ Keys(pruned)]

\* EpisodicMemory::generate_id: "ep_" and the incremented counter
CreateEpisodeDo(context) ==
    LET count == Cardinality(Keys(episodes))
        full == count >= ep_capacity
        id == ep_counter + 1
    IN  \E pruned \in (IF full THEN prune_episodes(episodes, ep_capacity, now) ELSE {episodes}) :
            /\ ep_counter' = id
            /\ episodes' = [i \in Keys(pruned) \cup {id} |->
                              IF i \in Keys(pruned) THEN pruned[i] ELSE Episode(id, context, now)]
            /\ last' = [op |-> "create_episode", context |-> context, result |-> id,
                        full |-> full, count |-> count,
                        erased |-> Keys(episodes) \ Keys(pruned)]

\* EpisodicMemory::add_memory
AddMemoryDo(episode_id, memory) ==
    IF episode_id \notin Keys(episodes)
    THEN /\ episodes' = episodes
         /\ last' = [op |-> "add_memory", id |-> episode_id, memory |-> memory,
                     result |-> FALSE]
    ELSE LET episode == episodes[episode_id]
             full == Len(episode.memories) >= max_memories_per_episode
         IN  \E pruned \in (IF full
                            THEN prune_memories(episode.memories, max_memories_per_episode)
                            ELSE {episode.memories}) :
                 LET mems == Append(pruned, memory)
                 IN  /\ episodes' = [episodes EXCEPT ![episode_id] =
                                        [episode EXCEPT !.memories = mems,
                                                        !.importance = episode_importance(mems)]]
                     /\ last' = [op |-> "add_memory", id |-> episode_id, memory |-> memory,
                                 result |-> TRUE, full |-> full, kept |-> pruned]

\* recall_episode looking the episode up with operator[], which inserts
RecallEpisodeDo_subscript(episode_id) ==
    LET held == [i \in Keys(episodes) \cup {episode_id} |->
                    IF i \in Keys(episodes) THEN episodes[i] ELSE Episode(i, {}, now)]
    IN  /\ episodes' = [held EXCEPT ![episode_id].last_accessed = now,
                                    ![episode_id].access_count = @ + 1]
        /\ last' = [op |-> "recall_episode", id |-> episode_id,
                    result |-> IF episode_id \in Keys(episodes)
                               THEN Some(episodes[episode_id].memories)
                               ELSE None]

\* EpisodicMemory::recall_episode
RecallEpisodeDo(episode_id) ==
    IF episode_id \notin Keys(episodes)
    THEN /\ episodes' = episodes
         /\ last' = [op |-> "recall_episode", id |-> episode_id, result |-> None]
    ELSE /\ episodes' = [episodes EXCEPT ![episode_id].last_accessed = now,
                                         ![episode_id].access_count = @ + 1]
         /\ last' = [op |-> "recall_episode", id |-> episode_id,
                     result |-> Some(episodes[episode_id].memories)]

\* EpisodicMemory::search
EpSearchDo(query, limit) ==
    \E results \in ep_search_results(episodes, query, limit, now) :
        /\ episodes' = episodes
        /\ last' = [op |-> "ep_search", query |-> query, limit |-> limit, result |-> results]

\* What the callers of EpisodicMemory pass in the checked runs
ContextInputs == { {}, {<<"k", "v">>} }

EpisodeIds == {1, 2, BigCapacity + 1}

EpisodeMemoryInputs ==
    { Memory(1, <<"a">>, {}, {}, 100, 0), Memory(2, <<"a", "b">>, {"t1"}, {}, 900, 1) }

EpisodeSearchInputs ==
    { <<EpisodeQuery({}, <<>>, None, None), 0>>,
      <<EpisodeQuery({}, <<>>, Some(0), Some(0)), 0>>,
      <<EpisodeQuery({}, <<>>, Some(0), Some(1)), 0>>,
      <<EpisodeQuery({<<"k", "v">>}, <<>>, Some(1), Some(1)), 0>>,
      <<EpisodeQuery({}, <<"b">>, None, Some(0)), 1>>,
      <<EpisodeQuery({<<"k", "v">>}, <<"b">>, None, None), 0>> }

CreateEpisode ==
    /\ LockIsFree("episodic")
    /\ calls < MaxCalls
    /\ calls' = calls + 1
    /\ \E context \in ContextInputs : CreateEpisodeDo(context)
    /\ UNCHANGED <<stateVars, ep_capacity, max_memories_per_episode, ep_peer, now, memVars, semVars, concVars>>

AddMemory ==
    /\ LockIsFree("episodic")
    /\ calls < MaxCalls
    /\ calls' = calls + 1
    /\ \E id \in EpisodeIds, memory \in EpisodeMemoryInputs : AddMemoryDo(id, memory)
    /\ UNCHANGED <<stateVars, ep_capacity, max_memories_per_episode, ep_peer, ep_counter, now,
                   memVars, semVars, concVars>>

RecallEpisode ==
    /\ LockIsFree("episodic")
    /\ calls < MaxCalls
    /\ calls' = calls + 1
    /\ \E id \in EpisodeIds : RecallEpisodeDo(id)
    /\ UNCHANGED <<stateVars, ep_capacity, max_memories_per_episode, ep_peer, ep_counter, now,
                   memVars, semVars, concVars>>

EpisodicSearch ==
    /\ LockIsFree("episodic")
    /\ calls < MaxCalls
    /\ calls' = calls + 1
    /\ \E in \in EpisodeSearchInputs : EpSearchDo(in[1], in[2])
    /\ UNCHANGED <<stateVars, ep_capacity, max_memories_per_episode, ep_peer, ep_counter, now,
                   memVars, semVars, concVars>>

\* A MemoryStore and an EpisodicMemory, both empty, used by one caller
QueryInit ==
    /\ capacity \in 1..MaxCapacity
    /\ memories = <<>>
    /\ ep_capacity \in 1..MaxCapacity
    /\ max_memories_per_episode = MaxCapacity
    /\ episodes = <<>>
    /\ ep_counter = 0
    /\ ep_peer = <<>>
    /\ SemanticUnused
    /\ now = 0
    /\ last = [op |-> "init"]
    /\ calls = 0
    /\ ConcInit

QueryNext ==
    \/ Store
    \/ Search
    \/ CreateEpisode
    \/ AddMemory
    \/ RecallEpisode
    \/ EpisodicSearch
    \/ Tick

QuerySpec == QueryInit /\ [][QueryNext]_vars

\* BigCapacity episodes as BigCapacity create_episode calls and i - 1
\* recall_episode calls on the i-th leave them
FullEpisodes ==
    [i \in 1..BigCapacity |-> [Episode(i, {}, 0) EXCEPT !.access_count = i - 1]]

\* EpisodicMemory::EpisodicMemory(max_episodes, max_memories_per_episode): an
\* empty map. The runs with capacity BigCapacity start from the full store.
EpisodicInit ==
    /\ MemoryStoreUnused
    /\ ep_capacity \in Capacities
    /\ max_memories_per_episode \in 1..MaxCapacity
    /\ episodes = IF ep_capacity = BigCapacity THEN FullEpisodes ELSE <<>>
    /\ ep_counter = IF ep_capacity = BigCapacity THEN BigCapacity ELSE 0
    /\ ep_peer = <<>>
    /\ SemanticUnused
    /\ now = 0
    /\ last = [op |-> "init"]
    /\ calls = 0
    /\ ConcInit

EpisodicNext ==
    \/ CreateEpisode
    \/ AddMemory
    \/ RecallEpisode
    \/ EpisodicSearch
    \/ Tick

EpisodicSpec == EpisodicInit /\ [][EpisodicNext]_vars

\* BigCapacity records of distinct scores, the lowest not at an end of the
\* list, as BigCapacity add_memory calls leave them in an episode
FullRecords ==
    [i \in 1..BigCapacity |->
        Memory(i + 2, <<"a">>, {}, {}, 100 * ((3 * i) % BigCapacity) + 50, 0)]

\* EpisodicMemory(BigCapacity, BigCapacity) after two create_episode calls and
\* the add_memory calls that fill the first episode
RecordInit ==
    /\ MemoryStoreUnused
    /\ ep_capacity = BigCapacity
    /\ max_memories_per_episode = BigCapacity
    /\ episodes = [i \in {1, 2} |->
                      IF i = 1
                      THEN [Episode(i, {}, 0) EXCEPT
                               !.memories = FullRecords,
                               !.importance = episode_importance(FullRecords)]
                      ELSE Episode(i, {}, 0)]
    /\ ep_counter = 2
    /\ ep_peer = <<>>
    /\ SemanticUnused
    /\ now = 0
    /\ last = [op |-> "init"]
    /\ calls = 0
    /\ ConcInit

RecordNext ==
    \/ CreateEpisode
    \/ AddMemory
    \/ RecallEpisode

RecordSpec == RecordInit /\ [][RecordNext]_vars

----------------------------------------------------------------------------
(* SemanticMemory (src/src/memory/semantic.cpp). A relationship is a pair   *)
(* <<to_id, strength>>, strengths and importances in 1/1000.                *)

\* Impl::Node::Node(id, concept) at time t, with the attributes create_node sets
Node(id, concept, attributes, t) ==
    [id |-> id, concept |-> concept, attributes |-> attributes,
     relationships |-> <<>>, importance |-> 0, access_count |-> 0,
     created |-> t, last_accessed |-> t]

\* SemanticMemory::convert_to_semantic_node
convert_to_semantic_node(node) ==
    [id |-> node.id, concept |-> node.concept, attributes |-> node.attributes,
     importance |-> node.importance]

\* The double that is not a number, as a value no fixed-point number takes
NaN == -1000000

\* a < b on doubles: false when either is not a number
less(a, b) == a # NaN /\ b # NaN /\ a < b

\* std::clamp(importance, 0.0, 1.0): lo if v < lo, hi if hi < v, else v
clamp(importance) ==
    IF less(importance, 0) THEN 0 ELSE IF less(1000, importance) THEN 1000 ELSE importance

\* matches_query without the concept match
sem_matches_query_no_concept(node, query) ==
    \A kv \in query.attributes : kv \in node.attributes

\* SemanticMemory::matches_query
sem_matches_query(node, query) ==
    /\ ~(query.concept # <<>> /\ node.concept # query.concept)
    /\ \A kv \in query.attributes : kv \in node.attributes

\* SemanticMemory::calculate_relevance, in 1/10000
sem_calculate_relevance(node, t) ==
    LET recency_score == DecayMilli(Hours(t, node.created))
        access_score == Log1pMilli(node.access_count)
        importance_score == node.importance
        relationship_score == Log1pMilli(Len(node.relationships))
    IN  (recency_score * 2) + (access_score * 2) + (importance_score * 4)
        + (relationship_score * 2)

\* SemanticMemory::calculate_retention_score, in 1/100000
sem_calculate_retention_score(node, t) ==
    LET age_score == DecayMilli(Hours(t, node.created))
        access_recency_score == DecayMilli(Hours(t, node.last_accessed))
        access_frequency_score == Log1pMilli(node.access_count)
        importance_score == node.importance
        connectivity_score == Log1pMilli(Len(node.relationships))
    IN  (age_score * 15) + (access_recency_score * 25) + (access_frequency_score * 20)
        + (importance_score * 25) + (connectivity_score * 15)

\* SemanticMemory::prune_nodes: the maps it can leave
prune_nodes(ns, cap, t) ==
    LET scores == [i \in Keys(ns) |-> sem_calculate_retention_score(ns[i], t)]
    IN  { Restrict(ns, kept) :
            kept \in erase_lowest(scores, Keys(ns), to_remove(Cardinality(Keys(ns)), cap)) }

\* The position of the relationship to to_id, 0 when there is none (std::find_if)
find_relationship(relationships, to_id) ==
    IF \E k \in 1..Len(relationships) : relationships[k][1] = to_id
    THEN CHOOSE k \in 1..Len(relationships) :
             /\ relationships[k][1] = to_id
             /\ \A j \in 1..(k - 1) : relationships[j][1] # to_id
    ELSE 0

\* add_relationship that appends without looking for the edge
put_relationship_append(relationships, to_id, strength) ==
    Append(relationships, <<to_id, strength>>)

\* add_relationship, lines 76-84: update or add
put_relationship(relationships, to_id, strength) ==
    LET k == find_relationship(relationships, to_id)
    IN  IF k # 0
        THEN [relationships EXCEPT ![k] = <<to_id, strength>>]
        ELSE Append(relationships, <<to_id, strength>>)

\* SemanticMemory::search: the vectors it can return
sem_search_results(ns, query, limit, t) ==
    LET matching == { i \in Keys(ns) : sem_matches_query(ns[i], query) }
        relevance == [i \in matching |-> sem_calculate_relevance(ns[i], t)]
    IN  { LET results == [k \in 1..Len(s) |-> convert_to_semantic_node(ns[s[k]])]
          IN  IF limit > 0 /\ Len(results) > limit THEN Take(results, limit) ELSE results
          : s \in sort_descending(relevance, matching) }

\* get_related_nodes comparing the strength with > instead of >=
related_nodes_above(ns, id, min_strength, limit) ==
    IF id \notin Keys(ns)
    THEN { <<>> }
    ELSE LET relationships == ns[id].relationships
             related == { relationships[k][1] : k \in
                            { j \in 1..Len(relationships) :
                                 /\ relationships[j][2] > min_strength
                                 /\ relationships[j][1] \in Keys(ns) } }
             find_strength == [i \in related |->
                                 relationships[find_relationship(relationships, i)][2]]
         IN  { LET results == [k \in 1..Len(s) |-> convert_to_semantic_node(ns[s[k]])]
               IN  IF limit > 0 /\ Len(results) > limit THEN Take(results, limit) ELSE results
               : s \in sort_descending(find_strength, related) }

\* SemanticMemory::get_related_nodes: the vectors it can return
related_nodes(ns, id, min_strength, limit) ==
    IF id \notin Keys(ns)
    THEN { <<>> }
    ELSE LET relationships == ns[id].relationships
             related == { relationships[k][1] : k \in
                            { j \in 1..Len(relationships) :
                                 /\ relationships[j][2] >= min_strength
                                 /\ relationships[j][1] \in Keys(ns) } }
             find_strength == [i \in related |->
                                 relationships[find_relationship(relationships, i)][2]]
         IN  { LET results == [k \in 1..Len(s) |-> convert_to_semantic_node(ns[s[k]])]
               IN  IF limit > 0 /\ Len(results) > limit THEN Take(results, limit) ELSE results
               : s \in sort_descending(find_strength, related) }

\* SemanticQuery: a concept and attributes (key -> value, as a set of pairs)
SemanticQuery(concept, attributes) == [concept |-> concept, attributes |-> attributes]

\* create_node taking the lowest id that is not held instead of a fresh one
CreateNodeDo_reuse_id(concept, attributes) ==
    LET count == Cardinality(Keys(nodes))
        full == count >= sem_capacity
    IN  \E pruned \in (IF full THEN prune_nodes(nodes, sem_capacity, now) ELSE {nodes}) :
            LET id == CHOOSE i \in 1..(sem_counter + 1) :
                          /\ i \notin Keys(pruned)
                          /\ \A j \in 1..(i - 1) : j \in Keys(pruned)
            IN  /\ sem_counter' = IF id > sem_counter THEN id ELSE sem_counter
                /\ nodes' = [i \in Keys(pruned) \cup {id} |->
                                IF i \in Keys(pruned) THEN pruned[i]
                                ELSE Node(id, concept, attributes, now)]
                /\ last' = [op |-> "create_node", result |-> id, full |-> full,
                            count |-> count, erased |-> Keys(nodes) \ Keys(pruned)]

\* SemanticMemory::create_node, with generate_id: "sem_" and the incremented counter
CreateNodeDo(concept, attributes) ==
    LET count == Cardinality(Keys(nodes))
        full == count >= sem_capacity
        id == sem_counter + 1
    IN  \E pruned \in (IF full THEN prune_nodes(nodes, sem_capacity, now) ELSE {nodes}) :
            /\ sem_counter' = id
            /\ nodes' = [i \in Keys(pruned) \cup {id} |->
                            IF i \in Keys(pruned) THEN pruned[i]
                            ELSE Node(id, concept, attributes, now)]
            /\ last' = [op |-> "create_node", result |-> id, full |-> full,
                        count |-> count, erased |-> Keys(nodes) \ Keys(pruned)]

\* add_relationship that looks up from_id only
AddRelationshipDo_from_only(from_id, to_id, strength) ==
    IF from_id \notin Keys(nodes)
    THEN /\ nodes' = nodes
         /\ last' = [op |-> "add_relationship", from_id |-> from_id, to_id |-> to_id,
                     strength |-> strength, result |-> FALSE]
    ELSE /\ nodes' = [nodes EXCEPT ![from_id].relationships =
                                       put_relationship(@, to_id, strength)]
         /\ last' = [op |-> "add_relationship", from_id |-> from_id, to_id |-> to_id,
                     strength |-> strength, result |-> TRUE]

\* SemanticMemory::add_relationship
AddRelationshipDo(from_id, to_id, strength) ==
    IF from_id \notin Keys(nodes) \/ to_id \notin Keys(nodes)
    THEN /\ nodes' = nodes
         /\ last' = [op |-> "add_relationship", from_id |-> from_id, to_id |-> to_id,
                     strength |-> strength, result |-> FALSE]
    ELSE /\ nodes' = [nodes EXCEPT ![from_id].relationships =
                                       put_relationship(@, to_id, strength)]
         /\ last' = [op |-> "add_relationship", from_id |-> from_id, to_id |-> to_id,
                     strength |-> strength, result |-> TRUE]

\* get_related_nodes recording the access of the source node as get_node does
GetRelatedNodesDo_touch(id, min_strength, limit) ==
    \E related \in related_nodes(nodes, id, min_strength, limit) :
        /\ nodes' = IF id \in Keys(nodes)
                    THEN [nodes EXCEPT ![id].last_accessed = now,
                                       ![id].access_count = @ + 1]
                    ELSE nodes
        /\ last' = [op |-> "get_related_nodes", id |-> id, min_strength |-> min_strength,
                    limit |-> limit, result |-> related]

\* SemanticMemory::get_related_nodes
GetRelatedNodesDo(id, min_strength, limit) ==
    \E related \in related_nodes(nodes, id, min_strength, limit) :
        /\ nodes' = nodes
        /\ last' = [op |-> "get_related_nodes", id |-> id, min_strength |-> min_strength,
                    limit |-> limit, result |-> related]

\* SemanticMemory::update_node_importance
UpdateNodeImportanceDo(id, importance) ==
    /\ nodes' = IF id \in Keys(nodes)
                THEN [nodes EXCEPT ![id].importance = clamp(importance)]
                ELSE nodes
    /\ last' = [op |-> "update_node_importance", id |-> id, importance |-> importance]

\* SemanticMemory::get_node
GetNodeDo(id) ==
    IF id \notin Keys(nodes)
    THEN /\ nodes' = nodes
         /\ last' = [op |-> "get_node", id |-> id, result |-> None]
    ELSE /\ nodes[id].access_count < MaxAccess
         /\ nodes' = [nodes EXCEPT ![id].last_accessed = now,
                                   ![id].access_count = @ + 1]
         /\ last' = [op |-> "get_node", id |-> id,
                     result |-> Some(convert_to_semantic_node(nodes'[id]))]

\* SemanticMemory::search
SemSearchDo(query, limit) ==
    \E results \in sem_search_results(nodes, query, limit, now) :
        LET hit == { results[k].id : k \in 1..Len(results) }
        IN  /\ \A i \in hit : nodes[i].access_count < MaxAccess
            /\ nodes' = [i \in Keys(nodes) |->
                            IF i \in hit
                            THEN [nodes[i] EXCEPT !.last_accessed = now,
                                                  !.access_count = @ + 1]
                            ELSE nodes[i]]
            /\ last' = [op |-> "sem_search", query |-> query, limit |-> limit,
                        result |-> results]

\* What the callers of SemanticMemory pass in the checked runs
NodeIds == {1, 2, BigCapacity + 1}

AttributeInputs == { {}, {<<"k", "v">>} }

StrengthInputs == {300, 700}

MinStrengthInputs == {0, 500}

ImportanceInputs == {500, 1500}

SemanticSearchInputs ==
    { <<SemanticQuery(<<>>, {}), 0>>,
      <<SemanticQuery(<<"c">>, {}), 1>>,
      <<SemanticQuery(<<>>, {<<"k", "v">>}), 0>>,
      <<SemanticQuery(<<"d">>, {}), 0>> }

CreateNode ==
    /\ LockIsFree("semantic")
    /\ calls < MaxCalls
    /\ calls' = calls + 1
    /\ \E attributes \in AttributeInputs : CreateNodeDo(<<"c">>, attributes)
    /\ UNCHANGED <<stateVars, sem_capacity, sem_peer, now, memVars, epVars, concVars>>

AddRelationship ==
    /\ LockIsFree("semantic")
    /\ calls < MaxCalls
    /\ calls' = calls + 1
    /\ \E from_id \in {1, 2}, to_id \in NodeIds, strength \in StrengthInputs :
          AddRelationshipDo(from_id, to_id, strength)
    /\ UNCHANGED <<stateVars, sem_capacity, sem_peer, sem_counter, now, memVars, epVars, concVars>>

GetNode ==
    /\ LockIsFree("semantic")
    /\ calls < MaxCalls
    /\ calls' = calls + 1
    /\ \E id \in NodeIds : GetNodeDo(id)
    /\ UNCHANGED <<stateVars, sem_capacity, sem_peer, sem_counter, now, memVars, epVars, concVars>>

SemanticSearch ==
    /\ LockIsFree("semantic")
    /\ calls < MaxCalls
    /\ calls' = calls + 1
    /\ \E input \in SemanticSearchInputs : SemSearchDo(input[1], input[2])
    /\ UNCHANGED <<stateVars, sem_capacity, sem_peer, sem_counter, now, memVars, epVars, concVars>>

GetRelatedNodes ==
    /\ LockIsFree("semantic")
    /\ calls < MaxCalls
    /\ calls' = calls + 1
    /\ \E id \in NodeIds, min_strength \in MinStrengthInputs, limit \in {0, 1} :
          GetRelatedNodesDo(id, min_strength, limit)
    /\ UNCHANGED <<stateVars, sem_capacity, sem_peer, sem_counter, now, memVars, epVars, concVars>>

UpdateNodeImportance ==
    /\ LockIsFree("semantic")
    /\ calls < MaxCalls
    /\ calls' = calls + 1
    /\ \E id \in {1, 2}, importance \in ImportanceInputs :
          UpdateNodeImportanceDo(id, importance)
    /\ UNCHANGED <<stateVars, sem_capacity, sem_peer, sem_counter, now, memVars, epVars, concVars>>

\* BigCapacity nodes as BigCapacity create_node calls, the update_node_importance
\* calls that give nodes 2, 3, ... rising importances and four add_relationship
\* calls from node 2 leave them
FullNodes ==
    [i \in 1..BigCapacity |->
        [Node(i, <<"c">>, {}, 0) EXCEPT
            !.importance = 100 * (i - 1),
            !.relationships = IF i = 2
                              THEN << <<1, 500>>, <<3, 700>>, <<4, 300>>, <<5, 700>> >>
                              ELSE <<>>]]

\* SemanticMemory::SemanticMemory(capacity): an empty map. The runs with
\* capacity BigCapacity start from the full store.
SemanticInit ==
    /\ MemoryStoreUnused
    /\ EpisodicUnused
    /\ sem_capacity \in Capacities
    /\ nodes = IF sem_capacity = BigCapacity THEN FullNodes ELSE <<>>
    /\ sem_counter = IF sem_capacity = BigCapacity THEN BigCapacity ELSE 0
    /\ sem_peer = <<>>
    /\ now = 0
    /\ last = [op |-> "init"]
    /\ calls = 0
    /\ ConcInit

SemanticNext ==
    \/ CreateNode
    \/ AddRelationship
    \/ GetNode
    \/ SemanticSearch
    \/ GetRelatedNodes
    \/ UpdateNodeImportance
    \/ Tick

SemanticSpec == SemanticInit /\ [][SemanticNext]_vars

\* Strengths and importances a caller can pass, also outside [0, 1]
AnyStrengthInputs == {-500, 700, 1500}

AnyImportanceInputs == {NaN, -500, 500, 1500}

AddRelationshipAny ==
    /\ LockIsFree("semantic")
    /\ calls < MaxCalls
    /\ calls' = calls + 1
    /\ \E from_id \in {1, 2}, to_id \in NodeIds, strength \in AnyStrengthInputs :
          AddRelationshipDo(from_id, to_id, strength)
    /\ UNCHANGED <<stateVars, sem_capacity, sem_peer, sem_counter, now, memVars, epVars, concVars>>

UpdateNodeImportanceAny ==
    /\ LockIsFree("semantic")
    /\ calls < MaxCalls
    /\ calls' = calls + 1
    /\ \E id \in NodeIds, importance \in AnyImportanceInputs :
          UpdateNodeImportanceDo(id, importance)
    /\ UNCHANGED <<stateVars, sem_capacity, sem_peer, sem_counter, now, memVars, epVars, concVars>>

\* SemanticMemory::SemanticMemory(BigCapacity): an empty map that the calls of
\* a run do not fill
RangeInit ==
    /\ MemoryStoreUnused
    /\ EpisodicUnused
    /\ sem_capacity = BigCapacity
    /\ nodes = <<>>
    /\ sem_counter = 0
    /\ sem_peer = <<>>
    /\ now = 0
    /\ last = [op |-> "init"]
    /\ calls = 0
    /\ ConcInit

RangeNext ==
    \/ CreateNode
    \/ AddRelationshipAny
    \/ UpdateNodeImportanceAny
    \/ GetNode

RangeSpec == RangeInit /\ [][RangeNext]_vars

----------------------------------------------------------------------------
(* MemoryStore: calls of several threads, interleaved at the steps between   *)
(* which another thread can run: the invocation, the acquisition of the     *)
(* mutex, the body (split where a thread running under the shared lock reads *)
(* and later writes a record) and the return, which releases the lock.      *)

\* The ids and records the threads use
ConcIds == {1, 2}

ConcMemoryInputs == { Memory(id, <<"a">>, {}, {}, 100, 0) : id \in ConcIds }

ConcUpdateInputs == { MemoryUpdate(Some(<<"b">>), None, None) }

ConcSearchInputs == { <<Query(<<>>, {}, None, None), 0>> }

MemoryStoreOps == {"store", "retrieve", "search", "update", "remove", "clear", "size"}

EpisodicOps == {"create_episode", "add_memory", "recall_episode", "ep_search"}

\* create_episode and create_node called on the second object of the type
PeerOps == {"peer_create_episode", "peer_create_node"}

SemanticOps == {"create_node", "add_relationship", "get_node", "sem_search",
                "get_related_nodes", "update_node_importance"}

\* The store whose mutex a call locks
StoreOf(op) ==
    IF op \in MemoryStoreOps THEN "memory"
    ELSE IF op \in EpisodicOps THEN "episodic"
    ELSE IF op = "peer_create_episode" THEN "episodic_peer"
    ELSE IF op = "peer_create_node" THEN "semantic_peer" ELSE "semantic"

\* Every call locks the same mutex: all of them with std::shared_lock
LockMode_all_shared(op) == "shared"

\* recall_episode constructing std::shared_lock as search does
LockMode_recall_shared(op) ==
    IF op \in {"store", "update", "remove", "clear",
               "create_episode", "add_memory",
               "create_node", "add_relationship", "update_node_importance",
               "peer_create_episode", "peer_create_node"}
    THEN "unique"
    ELSE "shared"

\* The lock each call constructs first: std::unique_lock in the calls listed,
\* std::shared_lock in retrieve, search and size of MemoryStore, in search of
\* EpisodicMemory and in get_node, search and get_related_nodes of SemanticMemory
LockMode(op) ==
    IF op \in {"store", "update", "remove", "clear",
               "create_episode", "add_memory", "recall_episode",
               "create_node", "add_relationship", "update_node_importance",
               "peer_create_episode", "peer_create_node"}
    THEN "unique"
    ELSE "shared"

\* std::shared_mutex::lock can return
can_lock(l) == l.writer = {} /\ l.readers = {}

\* std::shared_mutex::lock_shared can return
can_lock_shared(l) == l.writer = {}

\* The mutex after thread t acquired it in the given mode
locked(l, t, mode) ==
    IF mode = "unique"
    THEN [l EXCEPT !.writer = l.writer \cup {t}]
    ELSE [l EXCEPT !.readers = l.readers \cup {t}]

\* The mutex is not released by the destructor of the lock
unlocked_never(l, t) == l

\* The mutex after the lock object of thread t is destroyed (any return path)
unlocked(l, t) == [writer |-> l.writer \ {t}, readers |-> l.readers \ {t}]

\* Thread t is between the acquisition and the release of the mutex
InCS(t) == pc[t].at \notin {"idle", "lock"}

\* A thread calls op: it is about to construct the lock
Call(t, op) ==
    /\ pc[t] = Idle
    /\ calls < MaxCalls
    /\ calls' = calls + 1
    /\ pc' = [pc EXCEPT ![t] = [op |-> op, at |-> "lock"]]
    /\ hist' = [hist EXCEPT !.ops = hist.ops \cup {op},
                            !.overlap = hist.overlap \/ \E u \in Threads : pc[u] # Idle]
    /\ UNCHANGED <<stateVars, memVars, epVars, semVars, now, last, lock, local, bumps>>

\* The lock constructor returns: the thread holds the mutex
Acquire(t) ==
    /\ pc[t].at = "lock"
    /\ LET s == StoreOf(pc[t].op)
       IN  /\ IF LockMode(pc[t].op) = "unique"
              THEN can_lock(lock[s])
              ELSE can_lock_shared(lock[s])
           /\ lock' = [lock EXCEPT ![s] = locked(lock[s], t, LockMode(pc[t].op))]
    /\ pc' = [pc EXCEPT ![t].at = "cs"]
    /\ UNCHANGED <<stateVars, memVars, epVars, semVars, now, last, calls, local, bumps, hist>>

\* The call returns: the lock object is destroyed
Return(t) ==
    /\ pc' = [pc EXCEPT ![t] = Idle]
    /\ lock' = [lock EXCEPT ![StoreOf(pc[t].op)] = unlocked(lock[StoreOf(pc[t].op)], t)]
    /\ local' = [local EXCEPT ![t] = <<>>]

At(t, op, at) == pc[t] = [op |-> op, at |-> at]

\* store, lines 25-35, and its return
StoreBody(t) ==
    /\ At(t, "store", "cs")
    /\ \E memory \in ConcMemoryInputs :
          /\ StoreDo(memory)
          /\ bumps' = [i \in Ids |-> IF i \in Keys(memories')
                                      THEN (IF i = memory.id THEN memory.access_count ELSE bumps[i])
                                      ELSE 0]
          /\ hist' = [hist EXCEPT !.ids = hist.ids \cup {memory.id},
                                  !.dup = hist.dup \/ memory.id \in hist.ids]
    /\ Return(t)
    /\ UNCHANGED <<stateVars, capacity, epVars, semVars, now, calls>>

\* retrieve, lines 41-44: find, and the read of access_count++
RetrieveLoad(t) ==
    /\ At(t, "retrieve", "cs")
    /\ \E id \in ConcIds :
          IF id \in Keys(memories)
          THEN /\ local' = [local EXCEPT ![t] = [id |-> id, count |-> memories[id].access_count]]
               /\ pc' = [pc EXCEPT ![t].at = "inc"]
               /\ UNCHANGED <<stateVars, lock, last>>
          ELSE /\ last' = [op |-> "retrieve", id |-> id, result |-> None]
               /\ Return(t)
    /\ UNCHANGED <<stateVars, memVars, epVars, semVars, now, calls, bumps, hist>>

\* retrieve, lines 43-45: the writes of last_accessed and of access_count++,
\* the copy and the return
RetrieveStore(t) ==
    /\ At(t, "retrieve", "inc")
    /\ LET id == local[t].id
       IN  /\ memories' = IF id \in Keys(memories)
                          THEN [memories EXCEPT ![id].last_accessed = now,
                                                ![id].access_count = local[t].count + 1]
                          ELSE memories
           /\ last' = [op |-> "retrieve", id |-> id,
                       result |-> IF id \in Keys(memories) THEN Some(memories'[id]) ELSE None]
           /\ bumps' = [bumps EXCEPT ![id] = bumps[id] + 1]
    /\ Return(t)
    /\ UNCHANGED <<stateVars, capacity, epVars, semVars, now, calls, hist>>

\* search, lines 53-70: the results are collected, sorted and cut
SearchScan(t) ==
    /\ At(t, "search", "cs")
    /\ \E input \in ConcSearchInputs :
          \E results \in search_results(memories, input[1], input[2], now) :
              local' = [local EXCEPT ![t] = [results |-> results, k |-> 1, count |-> 0]]
    /\ pc' = [pc EXCEPT ![t].at = "touch"]
    /\ UNCHANGED <<stateVars, memVars, epVars, semVars, now, last, calls, lock, bumps, hist>>

\* search, lines 74-77: find of the next result, and the read of access_count++
SearchLoad(t) ==
    /\ At(t, "search", "touch")
    /\ local[t].k <= Len(local[t].results)
    /\ LET id == local[t].results[local[t].k].id
       IN  IF id \in Keys(memories)
           THEN /\ local' = [local EXCEPT ![t].count = memories[id].access_count]
                /\ pc' = [pc EXCEPT ![t].at = "inc"]
           ELSE /\ local' = [local EXCEPT ![t].k = local[t].k + 1]
                /\ pc' = pc
    /\ UNCHANGED <<stateVars, memVars, epVars, semVars, now, last, calls, lock, bumps, hist>>

\* search, lines 76-77: the writes of last_accessed and of access_count++
SearchStore(t) ==
    /\ At(t, "search", "inc")
    /\ LET id == local[t].results[local[t].k].id
       IN  /\ memories' = IF id \in Keys(memories)
                          THEN [memories EXCEPT ![id].last_accessed = now,
                                                ![id].access_count = local[t].count + 1]
                          ELSE memories
           /\ bumps' = [bumps EXCEPT ![id] = bumps[id] + 1]
    /\ local' = [local EXCEPT ![t].k = local[t].k + 1]
    /\ pc' = [pc EXCEPT ![t].at = "touch"]
    /\ UNCHANGED <<stateVars, capacity, epVars, semVars, now, last, calls, lock, hist>>

\* search, line 81: the return of the copies
SearchReturn(t) ==
    /\ At(t, "search", "touch")
    /\ local[t].k > Len(local[t].results)
    /\ last' = [op |-> "search", result |-> local[t].results]
    /\ Return(t)
    /\ UNCHANGED <<stateVars, memVars, epVars, semVars, now, calls, bumps, hist>>

\* update, lines 87-98, and its return
UpdateBody(t) ==
    /\ At(t, "update", "cs")
    /\ \E id \in ConcIds, update \in ConcUpdateInputs : UpdateDo(id, update)
    /\ Return(t)
    /\ UNCHANGED <<stateVars, capacity, epVars, semVars, now, calls, bumps, hist>>

\* remove, line 103, and its return
RemoveBody(t) ==
    /\ At(t, "remove", "cs")
    /\ \E id \in ConcIds :
          /\ RemoveDo(id)
          /\ bumps' = [bumps EXCEPT ![id] = 0]
    /\ Return(t)
    /\ UNCHANGED <<stateVars, capacity, epVars, semVars, now, calls, hist>>

\* clear, line 108, and its return
ClearBody(t) ==
    /\ At(t, "clear", "cs")
    /\ ClearDo
    /\ bumps' = [i \in Ids |-> 0]
    /\ Return(t)
    /\ UNCHANGED <<stateVars, capacity, epVars, semVars, now, calls, hist>>

\* size, line 113, and its return
SizeBody(t) ==
    /\ At(t, "size", "cs")
    /\ SizeDo
    /\ Return(t)
    /\ UNCHANGED <<stateVars, capacity, epVars, semVars, now, calls, bumps, hist>>

\* An empty store of some capacity, the threads idle
MemoryStoreConcInit ==
    /\ capacity \in 1..(MaxCapacity + 1)
    /\ memories = [i \in {} |-> 0]
    /\ EpisodicUnused
    /\ SemanticUnused
    /\ now = 0
    /\ last = [op |-> "init"]
    /\ calls = 0
    /\ ConcInit

MemoryStoreConcNext ==
    \E t \in Threads :
        \/ \E op \in MemoryStoreOps : Call(t, op)
        \/ Acquire(t)
        \/ StoreBody(t)
        \/ RetrieveLoad(t)
        \/ RetrieveStore(t)
        \/ SearchScan(t)
        \/ SearchLoad(t)
        \/ SearchStore(t)
        \/ SearchReturn(t)
        \/ UpdateBody(t)
        \/ RemoveBody(t)
        \/ ClearBody(t)
        \/ SizeBody(t)

ConcSpec == MemoryStoreConcInit /\ [][MemoryStoreConcNext]_vars

----------------------------------------------------------------------------
(* EpisodicMemory and SemanticMemory: calls of several threads. The calls   *)
(* under std::unique_lock run their body in one step; get_node and search of *)
(* SemanticMemory write a node under std::shared_lock and are split at the  *)
(* read and the write of access_count++.                                    *)

ConcEpisodeIds == {1, 2}

ConcEpisodeSearchInputs == { <<EpisodeQuery({}, <<>>, None, None), 0>> }

ConcNodeIds == {1, 2}

ConcStrengths == {500}

ConcImportances == {1500}

ConcSemanticSearchInputs == { <<SemanticQuery(<<>>, {}), 0>> }

\* create_episode, lines 46-55, and its return
CreateEpisodeBody(t) ==
    /\ At(t, "create_episode", "cs")
    /\ CreateEpisodeDo({})
    /\ Return(t)
    /\ UNCHANGED <<stateVars, ep_capacity, max_memories_per_episode, ep_peer, memVars, semVars,
                   now, calls, bumps, hist>>

\* add_memory, lines 61-73, and its return (false for an unknown episode)
AddMemoryBody(t) ==
    /\ At(t, "add_memory", "cs")
    /\ \E id \in ConcEpisodeIds, memory \in ConcMemoryInputs : AddMemoryDo(id, memory)
    /\ Return(t)
    /\ UNCHANGED <<stateVars, ep_capacity, max_memories_per_episode, ep_peer, ep_counter, memVars, semVars,
                   now, calls, bumps, hist>>

\* recall_episode, lines 79-88, and its return (nullopt for an unknown episode)
RecallEpisodeBody(t) ==
    /\ At(t, "recall_episode", "cs")
    /\ \E id \in ConcEpisodeIds : RecallEpisodeDo(id)
    /\ Return(t)
    /\ UNCHANGED <<stateVars, ep_capacity, max_memories_per_episode, ep_peer, ep_counter, memVars, semVars,
                   now, calls, bumps, hist>>

\* EpisodicMemory::search, lines 94-115, and its return
EpisodicSearchBody(t) ==
    /\ At(t, "ep_search", "cs")
    /\ \E input \in ConcEpisodeSearchInputs : EpSearchDo(input[1], input[2])
    /\ Return(t)
    /\ UNCHANGED <<stateVars, ep_capacity, max_memories_per_episode, ep_peer, ep_counter, memVars, semVars,
                   now, calls, bumps, hist>>

\* create_node, lines 49-58, and its return
CreateNodeBody(t) ==
    /\ At(t, "create_node", "cs")
    /\ CreateNodeDo(<<"c">>, {})
    /\ Return(t)
    /\ UNCHANGED <<stateVars, sem_capacity, sem_peer, memVars, epVars, now, calls, bumps, hist>>

\* add_relationship, lines 68-86, and its return (false for an unknown node)
AddRelationshipBody(t) ==
    /\ At(t, "add_relationship", "cs")
    /\ \E from_id \in ConcNodeIds, to_id \in ConcNodeIds, strength \in ConcStrengths :
          AddRelationshipDo(from_id, to_id, strength)
    /\ Return(t)
    /\ UNCHANGED <<stateVars, sem_capacity, sem_peer, sem_counter, memVars, epVars, now, calls, bumps, hist>>

\* get_node, lines 92-99: find, and the read of access_count++
GetNodeLoad(t) ==
    /\ At(t, "get_node", "cs")
    /\ \E id \in ConcNodeIds :
          IF id \in Keys(nodes)
          THEN /\ local' = [local EXCEPT ![t] = [id |-> id, count |-> nodes[id].access_count]]
               /\ pc' = [pc EXCEPT ![t].at = "inc"]
               /\ UNCHANGED <<stateVars, lock, last>>
          ELSE /\ last' = [op |-> "get_node", id |-> id, result |-> None]
               /\ Return(t)
    /\ UNCHANGED <<stateVars, memVars, epVars, semVars, now, calls, bumps, hist>>

\* get_node, lines 98-101: the writes of last_accessed and of access_count++,
\* the conversion and the return
GetNodeStore(t) ==
    /\ At(t, "get_node", "inc")
    /\ LET id == local[t].id
       IN  /\ nodes' = IF id \in Keys(nodes)
                       THEN [nodes EXCEPT ![id].last_accessed = now,
                                          ![id].access_count = local[t].count + 1]
                       ELSE nodes
           /\ last' = [op |-> "get_node", id |-> id,
                       result |-> IF id \in Keys(nodes)
                                  THEN Some(convert_to_semantic_node(nodes'[id]))
                                  ELSE None]
    /\ Return(t)
    /\ UNCHANGED <<stateVars, sem_capacity, sem_peer, sem_counter, memVars, epVars, now, calls, bumps, hist>>

\* SemanticMemory::search, lines 109-128: the results are collected, sorted and cut
SemanticSearchScan(t) ==
    /\ At(t, "sem_search", "cs")
    /\ \E input \in ConcSemanticSearchInputs :
          \E results \in sem_search_results(nodes, input[1], input[2], now) :
              local' = [local EXCEPT ![t] = [results |-> results, k |-> 1, count |-> 0]]
    /\ pc' = [pc EXCEPT ![t].at = "touch"]
    /\ UNCHANGED <<stateVars, memVars, epVars, semVars, now, last, calls, lock, bumps, hist>>

\* SemanticMemory::search, lines 131-135: find of the next result, and the read
\* of access_count++
SemanticSearchLoad(t) ==
    /\ At(t, "sem_search", "touch")
    /\ local[t].k <= Len(local[t].results)
    /\ LET id == local[t].results[local[t].k].id
       IN  IF id \in Keys(nodes)
           THEN /\ local' = [local EXCEPT ![t].count = nodes[id].access_count]
                /\ pc' = [pc EXCEPT ![t].at = "inc"]
           ELSE /\ local' = [local EXCEPT ![t].k = local[t].k + 1]
                /\ pc' = pc
    /\ UNCHANGED <<stateVars, memVars, epVars, semVars, now, last, calls, lock, bumps, hist>>

\* SemanticMemory::search, lines 134-135: the writes of last_accessed and of
\* access_count++
SemanticSearchStore(t) ==
    /\ At(t, "sem_search", "inc")
    /\ LET id == local[t].results[local[t].k].id
       IN  nodes' = IF id \in Keys(nodes)
                    THEN [nodes EXCEPT ![id].last_accessed = now,
                                       ![id].access_count = local[t].count + 1]
                    ELSE nodes
    /\ local' = [local EXCEPT ![t].k = local[t].k + 1]
    /\ pc' = [pc EXCEPT ![t].at = "touch"]
    /\ UNCHANGED <<stateVars, sem_capacity, sem_peer, sem_counter, memVars, epVars, now, last, calls,
                   lock, bumps, hist>>

\* SemanticMemory::search, line 139: the return of the results
SemanticSearchReturn(t) ==
    /\ At(t, "sem_search", "touch")
    /\ local[t].k > Len(local[t].results)
    /\ last' = [op |-> "sem_search", result |-> local[t].results]
    /\ Return(t)
    /\ UNCHANGED <<stateVars, memVars, epVars, semVars, now, calls, bumps, hist>>

\* get_related_nodes, lines 148-182, and its return (empty for an unknown node)
GetRelatedNodesBody(t) ==
    /\ At(t, "get_related_nodes", "cs")
    /\ \E id \in ConcNodeIds : GetRelatedNodesDo(id, 0, 0)
    /\ Return(t)
    /\ UNCHANGED <<stateVars, sem_capacity, sem_peer, sem_counter, memVars, epVars, now, calls, bumps, hist>>

\* update_node_importance, lines 188-191, and its return
UpdateNodeImportanceBody(t) ==
    /\ At(t, "update_node_importance", "cs")
    /\ \E id \in ConcNodeIds, importance \in ConcImportances :
          UpdateNodeImportanceDo(id, importance)
    /\ Return(t)
    /\ UNCHANGED <<stateVars, sem_capacity, sem_peer, sem_counter, memVars, epVars, now, calls, bumps, hist>>

----------------------------------------------------------------------------
(* generate_id: one static counter per store type, shared by every object   *)
(* of the type. Threads call create_episode and create_node on two objects  *)
(* of each type; the objects have their own mutex, so the creations on      *)
(* different objects run together. A creation is split where the thread is  *)
(* about to run generate_id.                                                *)

\* ++counter on a plain integer: the value the thread read, plus one
pre_increment_not_atomic(counter, seen) == seen + 1

\* ++counter on std::atomic<uint64_t>: one read-modify-write of the counter
\* as it is at this moment, whatever the thread has seen of it before
pre_increment(counter, seen) == counter + 1

\* emplace(id, entry): inserts the entry if the key is new; the element under
\* the key then gets the context or attributes assigned
emplace(map, id, entry, field, value) ==
    [i \in Keys(map) \cup {id} |->
        [(IF i \in Keys(map) THEN map[i] ELSE entry) EXCEPT
            ![field] = IF i = id THEN value ELSE @]]

\* create_episode, lines 46-48: the prune of the full map; generate_id is next
CreateEpisodePrune(t) ==
    /\ pc[t].at = "cs"
    /\ pc[t].op \in {"create_episode", "peer_create_episode"}
    /\ LET peer == pc[t].op = "peer_create_episode"
           eps == IF peer THEN ep_peer ELSE episodes
           full == Cardinality(Keys(eps)) >= ep_capacity
       IN  \E pruned \in (IF full THEN prune_episodes(eps, ep_capacity, now) ELSE {eps}) :
               /\ episodes' = IF peer THEN episodes ELSE pruned
               /\ ep_peer' = IF peer THEN pruned ELSE ep_peer
    /\ local' = [local EXCEPT ![t] = [seen |-> ep_counter]]
    /\ pc' = [pc EXCEPT ![t].at = "id"]
    /\ UNCHANGED <<stateVars, ep_capacity, max_memories_per_episode, ep_counter, memVars, semVars,
                   now, last, calls, lock, bumps, hist>>

\* create_episode, lines 50-55: generate_id, emplace, the context, the return
CreateEpisodeInsert(t) ==
    /\ pc[t].at = "id"
    /\ pc[t].op \in {"create_episode", "peer_create_episode"}
    /\ LET peer == pc[t].op = "peer_create_episode"
           eps == IF peer THEN ep_peer ELSE episodes
           id == pre_increment(ep_counter, local[t].seen)
           inserted == emplace(eps, id, Episode(id, {}, now), "context", {})
       IN  /\ ep_counter' = id
           /\ episodes' = IF peer THEN episodes ELSE inserted
           /\ ep_peer' = IF peer THEN inserted ELSE ep_peer
           /\ last' = [op |-> pc[t].op, result |-> id]
           /\ hist' = [hist EXCEPT !.ids = @ \cup {<<"ep", id>>},
                                   !.dup = @ \/ <<"ep", id>> \in hist.ids]
    /\ Return(t)
    /\ UNCHANGED <<stateVars, ep_capacity, max_memories_per_episode, memVars, semVars,
                   now, calls, bumps>>

\* create_node, lines 49-51: the prune of the full map; generate_id is next
CreateNodePrune(t) ==
    /\ pc[t].at = "cs"
    /\ pc[t].op \in {"create_node", "peer_create_node"}
    /\ LET peer == pc[t].op = "peer_create_node"
           ns == IF peer THEN sem_peer ELSE nodes
           full == Cardinality(Keys(ns)) >= sem_capacity
       IN  \E pruned \in (IF full THEN prune_nodes(ns, sem_capacity, now) ELSE {ns}) :
               /\ nodes' = IF peer THEN nodes ELSE pruned
               /\ sem_peer' = IF peer THEN pruned ELSE sem_peer
    /\ local' = [local EXCEPT ![t] = [seen |-> sem_counter]]
    /\ pc' = [pc EXCEPT ![t].at = "id"]
    /\ UNCHANGED <<stateVars, sem_capacity, sem_counter, memVars, epVars,
                   now, last, calls, lock, bumps, hist>>

\* create_node, lines 53-58: generate_id, emplace, the attributes, the return
CreateNodeInsert(t) ==
    /\ pc[t].at = "id"
    /\ pc[t].op \in {"create_node", "peer_create_node"}
    /\ LET peer == pc[t].op = "peer_create_node"
           ns == IF peer THEN sem_peer ELSE nodes
           id == pre_increment(sem_counter, local[t].seen)
           inserted == emplace(ns, id, Node(id, <<"c">>, {}, now), "attributes", {})
       IN  /\ sem_counter' = id
           /\ nodes' = IF peer THEN nodes ELSE inserted
           /\ sem_peer' = IF peer THEN inserted ELSE sem_peer
           /\ last' = [op |-> pc[t].op, result |-> id]
           /\ hist' = [hist EXCEPT !.ids = @ \cup {<<"sem", id>>},
                                   !.dup = @ \/ <<"sem", id>> \in hist.ids]
    /\ Return(t)
    /\ UNCHANGED <<stateVars, sem_capacity, memVars, epVars, now, calls, bumps>>

\* Two EpisodicMemory and two SemanticMemory objects of the same capacity. With
\* capacity BigCapacity the first object of each type is full: its ids have
\* been returned by the creations that filled it.
IdInit ==
    /\ MemoryStoreUnused
    /\ ep_capacity \in Capacities
    /\ max_memories_per_episode = 1
    /\ episodes = IF ep_capacity = BigCapacity THEN FullEpisodes ELSE <<>>
    /\ ep_counter = IF ep_capacity = BigCapacity THEN BigCapacity ELSE 0
    /\ ep_peer = <<>>
    /\ sem_capacity = ep_capacity
    /\ nodes = IF sem_capacity = BigCapacity THEN FullNodes ELSE <<>>
    /\ sem_counter = IF sem_capacity = BigCapacity THEN BigCapacity ELSE 0
    /\ sem_peer = <<>>
    /\ now = 0
    /\ last = [op |-> "init"]
    /\ calls = 0
    /\ pc = [t \in Threads |-> Idle]
    /\ lock = [s \in Stores |-> [writer |-> {}, readers |-> {}]]
    /\ local = [t \in Threads |-> <<>>]
    /\ bumps = [i \in Ids |-> 0]
    /\ hist = [ops |-> {},
               ids |-> IF ep_capacity = BigCapacity
                       THEN {"ep", "sem"} \X (1..BigCapacity)
                       ELSE {},
               dup |-> FALSE, overlap |-> FALSE]
    /\ StateUnused

IdNext ==
    \E t \in Threads :
        \/ \E op \in {"create_episode", "create_node"} \cup PeerOps : Call(t, op)
        \/ Acquire(t)
        \/ CreateEpisodePrune(t)
        \/ CreateEpisodeInsert(t)
        \/ CreateNodePrune(t)
        \/ CreateNodeInsert(t)

IdSpec == IdInit /\ [][IdNext]_vars

----------------------------------------------------------------------------
(* The threads of a run share one of the three stores; every thread that can *)
(* take a step of its call eventually takes one.                             *)

\* A thread calls op on the store the earlier calls of the run were made on
LockCall(t, op) ==
    /\ \A o \in hist.ops : StoreOf(o) = StoreOf(op)
    /\ Call(t, op)

\* A step of the call thread t is in
LockStep(t) ==
    \/ Acquire(t)
    \/ StoreBody(t)
    \/ RetrieveLoad(t)
    \/ RetrieveStore(t)
    \/ SearchScan(t)
    \/ SearchLoad(t)
    \/ SearchStore(t)
    \/ SearchReturn(t)
    \/ UpdateBody(t)
    \/ RemoveBody(t)
    \/ ClearBody(t)
    \/ SizeBody(t)
    \/ CreateEpisodeBody(t)
    \/ AddMemoryBody(t)
    \/ RecallEpisodeBody(t)
    \/ EpisodicSearchBody(t)
    \/ CreateNodeBody(t)
    \/ AddRelationshipBody(t)
    \/ GetNodeLoad(t)
    \/ GetNodeStore(t)
    \/ SemanticSearchScan(t)
    \/ SemanticSearchLoad(t)
    \/ SemanticSearchStore(t)
    \/ SemanticSearchReturn(t)
    \/ GetRelatedNodesBody(t)
    \/ UpdateNodeImportanceBody(t)

\* The three stores, empty and each constructed for one entry, so that the
\* second store or create call of a run takes the path that prunes first
LockInit ==
    /\ capacity = 1
    /\ memories = <<>>
    /\ ep_capacity = capacity
    /\ max_memories_per_episode = capacity
    /\ episodes = <<>>
    /\ ep_counter = 0
    /\ ep_peer = <<>>
    /\ sem_capacity = capacity
    /\ nodes = <<>>
    /\ sem_counter = 0
    /\ sem_peer = <<>>
    /\ now = 0
    /\ last = [op |-> "init"]
    /\ calls = 0
    /\ ConcInit

LockNext ==
    \E t \in Threads :
        \/ \E op \in MemoryStoreOps \cup EpisodicOps \cup SemanticOps : LockCall(t, op)
        \/ LockStep(t)

LockSpec ==
    /\ LockInit
    /\ [][LockNext]_vars
    /\ \A t \in Threads : WF_vars(LockStep(t))

----------------------------------------------------------------------------
(* The access bookkeeping of get_node and search of SemanticMemory and of    *)
(* recall_episode of EpisodicMemory under several threads. No call of these  *)
(* runs creates or prunes. recall_episode is split like get_node, at the     *)
(* read and the write of access_count++.                                    *)

\* recall_episode, lines 79-87: find, the write of last_accessed and the read
\* of access_count++
RecallEpisodeLoad(t) ==
    /\ At(t, "recall_episode", "cs")
    /\ \E id \in ConcEpisodeIds :
          IF id \in Keys(episodes)
          THEN /\ local' = [local EXCEPT ![t] = [id |-> id,
                                                 count |-> episodes[id].access_count]]
               /\ pc' = [pc EXCEPT ![t].at = "inc"]
               /\ UNCHANGED <<stateVars, lock, last>>
          ELSE /\ last' = [op |-> "recall_episode", id |-> id, result |-> None]
               /\ Return(t)
    /\ UNCHANGED <<stateVars, memVars, epVars, semVars, now, calls, bumps, hist>>

\* recall_episode, lines 86-89: the writes of last_accessed and of
\* access_count++, and the return of the records
RecallEpisodeStore(t) ==
    /\ At(t, "recall_episode", "inc")
    /\ LET id == local[t].id
       IN  /\ episodes' = IF id \in Keys(episodes)
                          THEN [episodes EXCEPT ![id].last_accessed = now,
                                                ![id].access_count = local[t].count + 1]
                          ELSE episodes
           /\ last' = [op |-> "recall_episode", id |-> id,
                       result |-> IF id \in Keys(episodes)
                                  THEN Some(episodes[id].memories)
                                  ELSE None]
    /\ Return(t)
    /\ UNCHANGED <<stateVars, ep_capacity, max_memories_per_episode, ep_peer, ep_counter, memVars,
                   semVars, now, calls, bumps, hist>>

\* Two episodes as two create_episode calls and one add_memory leave them
TwoEpisodes ==
    [i \in ConcEpisodeIds |->
        IF i = 1
        THEN [Episode(i, {}, 0) EXCEPT
                 !.memories = << Memory(1, <<"a">>, {}, {}, 500, 0) >>,
                 !.importance = episode_importance(<< Memory(1, <<"a">>, {}, {}, 500, 0) >>)]
        ELSE Episode(i, {<<"k", "v">>}, 0)]

\* Two nodes as two create_node calls leave them
TwoNodes == [i \in ConcNodeIds |-> Node(i, <<"c">>, {}, 0)]

\* An EpisodicMemory and a SemanticMemory of capacity BigCapacity that hold the
\* two episodes and the two nodes
AccessInit ==
    /\ MemoryStoreUnused
    /\ ep_capacity = BigCapacity
    /\ max_memories_per_episode = BigCapacity
    /\ episodes = TwoEpisodes
    /\ ep_counter = Cardinality(ConcEpisodeIds)
    /\ ep_peer = <<>>
    /\ sem_capacity = BigCapacity
    /\ nodes = TwoNodes
    /\ sem_counter = Cardinality(ConcNodeIds)
    /\ sem_peer = <<>>
    /\ now \in 0..MaxTime
    /\ last = [op |-> "init"]
    /\ calls = 0
    /\ ConcInit

AccessNext ==
    \E t \in Threads :
        \/ \E op \in {"get_node", "sem_search", "recall_episode"} : LockCall(t, op)
        \/ Acquire(t)
        \/ GetNodeLoad(t)
        \/ GetNodeStore(t)
        \/ SemanticSearchScan(t)
        \/ SemanticSearchLoad(t)
        \/ SemanticSearchStore(t)
        \/ SemanticSearchReturn(t)
        \/ RecallEpisodeLoad(t)
        \/ RecallEpisodeStore(t)

AccessSpec == AccessInit /\ [][AccessNext]_vars

----------------------------------------------------------------------------
(* MemoryStore::prune called by a thread itself. prune constructs no lock:   *)
(* inside store it runs under the lock store holds. It is split at the scan  *)
(* of the records (the scores and their sort) and the erase loop.           *)

\* A thread calls prune: no lock is constructed, line 117 is next
PruneCall(t) ==
    /\ pc[t] = Idle
    /\ calls < MaxCalls
    /\ calls' = calls + 1
    /\ pc' = [pc EXCEPT ![t] = [op |-> "prune", at |-> "scan"]]
    /\ hist' = [hist EXCEPT !.ops = hist.ops \cup {"prune"},
                            !.overlap = hist.overlap \/ \E u \in Threads : pc[u] # Idle]
    /\ UNCHANGED <<stateVars, memVars, epVars, semVars, now, last, lock, local, bumps>>

\* prune, lines 117-137: the early return below capacity; else the scores of
\* the records, their sort and to_remove give the ids the loop will erase
PruneScan(t) ==
    /\ At(t, "prune", "scan")
    /\ \E pruned \in prune(memories, capacity, now) :
          IF Cardinality(Keys(memories)) < capacity
          THEN /\ pc' = [pc EXCEPT ![t] = Idle]
               /\ local' = [local EXCEPT ![t] = <<>>]
          ELSE /\ pc' = [pc EXCEPT ![t].at = "erase"]
               /\ local' = [local EXCEPT ![t] = [erase |-> Keys(memories) \ Keys(pruned)]]
    /\ UNCHANGED <<stateVars, memVars, epVars, semVars, now, last, calls, lock, bumps, hist>>

\* prune, lines 138-140: the erase loop (erase of an id no longer held erases
\* nothing), and the return
PruneErase(t) ==
    /\ At(t, "prune", "erase")
    /\ memories' = Restrict(memories, Keys(memories) \ local[t].erase)
    /\ bumps' = [i \in Ids |-> IF i \in local[t].erase THEN 0 ELSE bumps[i]]
    /\ last' = [op |-> "prune", erased |-> local[t].erase \cap Keys(memories)]
    /\ pc' = [pc EXCEPT ![t] = Idle]
    /\ local' = [local EXCEPT ![t] = <<>>]
    /\ UNCHANGED <<stateVars, capacity, epVars, semVars, now, calls, lock, hist>>

\* The calls of MemoryStore that change or bump records
MutatingOps == {"store", "retrieve", "search", "update", "remove", "clear"}

\* The full store of capacity BigCapacity, the threads idle
PruneInit ==
    /\ capacity = BigCapacity
    /\ memories = FullStore
    /\ EpisodicUnused
    /\ SemanticUnused
    /\ now = 0
    /\ last = [op |-> "init"]
    /\ calls = 0
    /\ ConcInit

\* The calls made beside prune (search bumps its results as retrieve bumps
\* its record and is left to the runs of the store without prune)
PruneNext ==
    \E t \in Threads :
        \/ \E op \in MutatingOps \ {"search"} : Call(t, op)
        \/ PruneCall(t)
        \/ Acquire(t)
        \/ PruneScan(t)
        \/ PruneErase(t)
        \/ StoreBody(t)
        \/ RetrieveLoad(t)
        \/ RetrieveStore(t)
        \/ UpdateBody(t)
        \/ RemoveBody(t)
        \/ ClearBody(t)

PruneSpec == PruneInit /\ [][PruneNext]_vars

----------------------------------------------------------------------------
(* Claims about MemoryStore, one caller *)

size == Cardinality(Keys(memories))

\* C1: whenever a store call has returned, the number of held records is at
\* most the capacity.
C1_SizeWithinCapacity ==
    last.op = "store" => size <= capacity

\* C7: a prune that runs with count >= capacity records removes exactly
\* count - floor(capacity * 0.9) of them.
C7_PruneRemovesToNinetyPercent ==
    (last.op = "store" /\ last.full) =>
        Cardinality(last.erased) = last.count - ((9 * capacity) \div 10)

\* C6: whenever a store call prunes, a record whose retention score is
\* strictly lowest among the records held is erased, and no erased record
\* scores strictly higher than a record that is kept.
C6_PruneRemovesLowest ==
    [][ (calls' = calls + 1 /\ last'.op = "store" /\ last'.full) =>
          LET score(i) == calculate_retention_score(memories[i], now)
              erased == last'.erased
          IN  /\ \A i \in Keys(memories) :
                    (\A j \in Keys(memories) \ {i} : score(i) < score(j)) => i \in erased
              /\ \A i \in erased, j \in Keys(memories) \ erased : score(i) <= score(j)
      ]_vars

\* C8: store(r) immediately followed by retrieve(r.id) returns a record with
\* the content, tags and metadata of r.
C8_RoundTrip ==
    [][ (calls' = calls + 1 /\ last.op = "store" /\ last'.op = "retrieve"
         /\ last'.id = last.memory.id) =>
          /\ last'.result # None
          /\ \A m \in last'.result :
                /\ m.content = last.memory.content
                /\ m.tags = last.memory.tags
                /\ m.metadata = last.memory.metadata
      ]_vars

\* C8 witness: in a store that was full, a record stored under a new id (the
\* prune before it erased a record) has been retrieved by the next call.
C8_Witness ==
    /\ capacity = BigCapacity
    /\ calls = 2
    /\ last.op = "retrieve"
    /\ last.id = BigCapacity + 1
    /\ last.result # None
    /\ Keys(memories) # 1..(BigCapacity + 1)

\* C9: for every record search returns, the stored access_count is one higher
\* than before the call and the returned copy carries the incremented count.
C9_SearchBookkeepingLikeRetrieve ==
    [][ (calls' = calls + 1 /\ last'.op = "search") =>
          \A k \in 1..Len(last'.result) :
              LET id == last'.result[k].id
              IN  /\ memories'[id].access_count = memories[id].access_count + 1
                  /\ last'.result[k].access_count = memories[id].access_count + 1
      ]_vars

----------------------------------------------------------------------------
(* Claims about MemoryStore, several threads *)

\* No thread holds the mutex
Quiescent == \A t \in Threads : ~InCS(t)

\* C2: once the retrieve calls on a held id have run to completion, with no
\* store, remove or clear of it in between, its access_count is higher by the
\* number of those calls: it equals the count the completed calls add up to.
C2_NoLostAccessIncrement ==
    (Quiescent /\ "search" \notin hist.ops) =>
        \A id \in Keys(memories) : memories[id].access_count = bumps[id]

\* C3: while a thread is inside the critical section of store, update, remove
\* or clear, no other thread is inside the critical section of any call.
C3_WritersExclusive ==
    \A t \in Threads :
        (InCS(t) /\ pc[t].op \in {"store", "update", "remove", "clear"}) =>
            \A u \in Threads \ {t} : ~InCS(u)

\* C3 witness: a thread is inside store's critical section while another
\* thread has called retrieve and waits for the mutex.
C3_Witness ==
    \E t, u \in Threads :
        /\ At(t, "store", "cs")
        /\ At(u, "retrieve", "lock")

\* C5: when only store calls with pairwise distinct ids have been made on the
\* empty store, fewer than capacity, and all have returned, the store holds
\* exactly the stored ids.
C5_NoLostStore ==
    (/\ hist.ops = {"store"}
     /\ ~hist.dup
     /\ \A t \in Threads : pc[t] = Idle
     /\ Cardinality(hist.ids) < capacity) =>
        /\ Keys(memories) = hist.ids
        /\ size = Cardinality(hist.ids)

\* C5 witness: two store calls with distinct ids, the second made while the
\* first had not returned, have both returned, below capacity.
C5_Witness ==
    /\ hist.ops = {"store"}
    /\ ~hist.dup
    /\ hist.overlap
    /\ \A t \in Threads : pc[t] = Idle
    /\ Cardinality(hist.ids) = 2
    /\ capacity > 2
    /\ size = 2

----------------------------------------------------------------------------
(* The time range of a search *)

\* The ids of the records a MemoryStore search returned
returned_ids == { last.result[k].id : k \in 1..Len(last.result) }

\* The ids of the episodes an EpisodicMemory search returned
returned_episodes == { last.result[k][1] : k \in 1..Len(last.result) }

\* timestamp is inside the query's range when both ends belong to the range
in_closed_range(timestamp, query) ==
    /\ \A s \in query.start_time : s <= timestamp
    /\ \A e \in query.end_time : timestamp <= e

\* timestamp is inside the query's range when the end does not belong to it
in_half_open_range(timestamp, query) ==
    /\ \A s \in query.start_time : s <= timestamp
    /\ \A e \in query.end_time : timestamp < e

\* The predicates of a MemoryStore query other than the time range
other_predicates(memory, query) ==
    /\ (query.content # <<>> => Find(memory.content, query.content))
    /\ (query.tags # {} => \E tag \in query.tags : tag \in memory.tags)

\* The predicates of an EpisodicMemory query other than the time range
ep_other_predicates(episode, query) ==
    /\ \A kv \in query.context : kv \in episode.context
    /\ (query.content # <<>> =>
           \E k \in 1..Len(episode.memories) :
               Find(episode.memories[k].content, query.content))

\* The entries a search may return and, when the limit does not cut the
\* result, does return, given the set the query selects
returns_selected(returned, selected, limit) ==
    /\ returned \subseteq selected
    /\ (limit = 0 \/ Cardinality(selected) <= limit) => returned = selected

\* C10 (as stated): MemoryStore.search and EpisodicMemory.search treat the
\* time range as half-open [start, end): an entry created exactly at the
\* query's end time is never returned, and one created exactly at the start
\* time is returned when the other predicates hold.
C10_TimeRangeHalfOpen ==
    /\ last.op = "search" =>
          returns_selected(returned_ids,
              { i \in Keys(memories) :
                   /\ other_predicates(memories[i], last.query)
                   /\ in_half_open_range(memories[i].timestamp, last.query) },
              last.limit)
    /\ last.op = "ep_search" =>
          returns_selected(returned_episodes,
              { i \in Keys(episodes) :
                   /\ ep_other_predicates(episodes[i], last.query)
                   /\ in_half_open_range(episodes[i].timestamp, last.query) },
              last.limit)

\* C10 (amended): both searches treat the time range as closed [start, end]:
\* an entry created exactly at the query's start time or exactly at its end
\* time is returned when the other predicates hold and the limit does not
\* cut it off, and no entry created outside the range is returned.
C10_TimeRangeClosed ==
    /\ last.op = "search" =>
          returns_selected(returned_ids,
              { i \in Keys(memories) :
                   /\ other_predicates(memories[i], last.query)
                   /\ in_closed_range(memories[i].timestamp, last.query) },
              last.limit)
    /\ last.op = "ep_search" =>
          returns_selected(returned_episodes,
              { i \in Keys(episodes) :
                   /\ ep_other_predicates(episodes[i], last.query)
                   /\ in_closed_range(episodes[i].timestamp, last.query) },
              last.limit)

\* An EpisodicMemory search whose start time is before its end time has
\* returned an episode created at the start time and one created at the end
\* time
C10_Witness ==
    /\ last.op = "ep_search"
    /\ \E s \in last.query.start_time, e \in last.query.end_time :
          /\ s < e
          /\ \E i \in returned_episodes : episodes[i].timestamp = e
          /\ \E i \in returned_episodes : episodes[i].timestamp = s

----------------------------------------------------------------------------
(* The locks of the three stores *)

\* The threads that hold the mutex of store s
holders(s) == lock[s].writer \cup lock[s].readers

\* C4: for each of the three stores every operation releases the store's lock
\* on every return path (a thread outside a call holds no lock), and under
\* fair scheduling every invoked operation eventually returns: no set of
\* concurrent calls on one store deadlocks.
C4_EveryCallReleasesAndReturns ==
    /\ [](\A t \in Threads : pc[t] = Idle => \A s \in Stores : t \notin holders(s))
    /\ \A t \in Threads : (pc[t] # Idle) ~> (pc[t] = Idle)

\* A call that found its id unknown has returned false, and now a thread
\* waits for the mutex of the store while another thread holds it as writer
C4_Witness ==
    /\ last.op \in {"update", "add_memory", "add_relationship"}
    /\ last.result = FALSE
    /\ \E t \in Threads, u \in Threads :
          /\ t # u
          /\ pc[t].at = "lock"
          /\ u \in lock[StoreOf(pc[t].op)].writer

----------------------------------------------------------------------------
(* MemoryStore: results of search, update, remove and clear *)

C13_UpdateFrame ==
    [][ (calls' = calls + 1 /\ last'.op = "update") =>
          LET id == last'.id
              u == last'.update
          IN  IF id \notin Keys(memories)
              THEN /\ last'.result = FALSE
                   /\ memories' = memories
              ELSE /\ last'.result = TRUE
                   /\ Keys(memories') = Keys(memories)
                   /\ \A i \in Keys(memories) \ {id} : memories'[i] = memories[i]
                   /\ \A v \in u.content : memories'[id].content = v
                   /\ \A v \in u.tags : memories'[id].tags = v
                   /\ \A v \in u.metadata : memories'[id].metadata = v
                   /\ u.content = None => memories'[id].content = memories[id].content
                   /\ u.tags = None => memories'[id].tags = memories[id].tags
                   /\ u.metadata = None => memories'[id].metadata = memories[id].metadata
                   /\ memories'[id].importance = memories[id].importance
                   /\ memories'[id].access_count = memories[id].access_count
                   /\ memories'[id].timestamp = memories[id].timestamp
                   /\ memories'[id].last_accessed = memories[id].last_accessed
                   /\ memories'[id].id = id
      ]_vars

\* C13 witness: an update that supplies only tags has returned true for a
\* record that has content, metadata and a positive access count, while
\* another record is held
C13_Witness ==
    /\ last.op = "update"
    /\ last.result = TRUE
    /\ last.update.content = None
    /\ last.update.tags # None
    /\ memories[last.id].tags \in last.update.tags
    /\ memories[last.id].content # <<>>
    /\ memories[last.id].metadata # {}
    /\ memories[last.id].access_count > 0
    /\ Cardinality(Keys(memories)) > 1

\* C14: remove(id) of a present id returns true, lowers size() by exactly one
\* and removes no other record; a second remove(id) with no store of that id
\* in between returns false (an absent id stays absent until it is stored, and
\* remove of an absent id returns false and changes nothing); after clear(),
\* until the next store, size() is 0 and every retrieve returns empty.
C14_RemoveTwiceAndClear ==
    [][ /\ (calls' = calls + 1 /\ last'.op = "remove") =>
              /\ last'.result = (last'.id \in Keys(memories))
              /\ last'.id \notin Keys(memories')
              /\ Cardinality(Keys(memories')) =
                    Cardinality(Keys(memories)) - (IF last'.result THEN 1 ELSE 0)
              /\ \A i \in Keys(memories) \ {last'.id} :
                    i \in Keys(memories') /\ memories'[i] = memories[i]
        /\ (calls' = calls + 1 /\ last.op = "remove" /\ last.result
            /\ last'.op = "remove" /\ last'.id = last.id) => last'.result = FALSE
        /\ \A i \in Keys(memories') \ Keys(memories) :
              last'.op = "store" /\ last'.memory.id = i
        /\ (calls' = calls + 1 /\ last'.op = "clear") => Keys(memories') = {}
        /\ (calls' = calls + 1 /\ last'.op = "size") =>
              last'.result = Cardinality(Keys(memories))
        /\ (calls' = calls + 1 /\ last'.op = "retrieve" /\ last'.id \notin Keys(memories)) =>
              last'.result = None
      ]_vars

\* C14 witness: in the store that started with BigCapacity records the remove
\* of one of them has returned false, exactly one record being gone: the
\* same id was removed before and not stored since
C14_Witness ==
    /\ capacity = BigCapacity
    /\ last.op = "remove"
    /\ last.result = FALSE
    /\ last.id \in 1..BigCapacity
    /\ Keys(memories) = (1..BigCapacity) \ {last.id}

\* C15: the access count of a record is monotonic: for an id that stays in
\* the store, the stored access_count never decreases from one state to the
\* next.
C15_AccessCountMonotonic ==
    [][ \A i \in Keys(memories) \cap Keys(memories') :
            memories'[i].access_count >= memories[i].access_count ]_vars

----------------------------------------------------------------------------
(* The capacities of EpisodicMemory and SemanticMemory *)

\* C17: whenever a create_episode call has returned, the number of episodes
\* held is at most max_episodes.
C17_EpisodesWithinCapacity ==
    last.op = "create_episode" => Cardinality(Keys(episodes)) <= ep_capacity

\* C18: whenever an add_memory call has returned, the record list of every
\* episode is at most max_memories_per_episode long.
C18_MemoriesWithinCapacity ==
    last.op = "add_memory" =>
        \A i \in Keys(episodes) : Len(episodes[i].memories) <= max_memories_per_episode

\* C16: whenever a create_node call has returned, the number of nodes held is
\* at most the capacity.
C16_NodesWithinCapacity ==
    last.op = "create_node" => Cardinality(Keys(nodes)) <= sem_capacity

----------------------------------------------------------------------------
(* SemanticMemory: related nodes *)

\* C20: get_related_nodes(id, min_strength, limit) returns, for a known id,
\* exactly the nodes in the store that are targets of an outbound edge of id
\* with strength >= min_strength, cut to the limit strongest when limit > 0,
\* ordered by that edge strength descending; targets not in the store are
\* skipped; for an unknown id it returns the empty sequence.
C20_RelatedNodes ==
    last.op = "get_related_nodes" =>
        LET r == last.result
            limit == last.limit
        IN  IF last.id \notin Keys(nodes)
            THEN r = <<>>
            ELSE LET edges == nodes[last.id].relationships
                     targets == { i \in Keys(nodes) :
                                    \E k \in 1..Len(edges) :
                                        edges[k][1] = i /\ edges[k][2] >= last.min_strength }
                     returned == { r[k].id : k \in 1..Len(r) }
                     strength(i) == CHOOSE w \in { edges[k][2] : k \in 1..Len(edges) } :
                                        \E k \in 1..Len(edges) : edges[k] = <<i, w>>
                 IN  /\ returned \subseteq targets
                     /\ Cardinality(returned) = Len(r)
                     /\ Len(r) = IF limit > 0 THEN Min(limit, Cardinality(targets))
                                 ELSE Cardinality(targets)
                     /\ \A j \in 1..Len(r), k \in 1..Len(r) :
                           j < k => strength(r[j].id) >= strength(r[k].id)
                     /\ \A i \in targets \ returned, k \in 1..Len(r) :
                           strength(i) <= strength(r[k].id)
                     /\ \A k \in 1..Len(r) :
                           /\ r[k].concept = nodes[r[k].id].concept
                           /\ r[k].attributes = nodes[r[k].id].attributes
                           /\ r[k].importance = nodes[r[k].id].importance

\* C20 witness: get_related_nodes has returned two nodes for a node that also
\* has an edge of sufficient strength to a node no longer in the store and
\* an edge below min_strength
C20_Witness ==
    /\ last.op = "get_related_nodes"
    /\ last.id \in Keys(nodes)
    /\ last.min_strength > 0
    /\ Len(last.result) = 2
    /\ LET edges == nodes[last.id].relationships
       IN  /\ \E k \in 1..Len(edges) :
                 edges[k][1] \notin Keys(nodes) /\ edges[k][2] >= last.min_strength
           /\ \E k \in 1..Len(edges) :
                 edges[k][1] \in Keys(nodes) /\ edges[k][2] < last.min_strength

----------------------------------------------------------------------------
(* The ids of episodes and nodes *)

\* C19: every id returned by create_episode (respectively create_node) differs
\* from every id returned earlier for that store type, also after the earlier
\* episode or node was pruned and also when the calls run concurrently on the
\* same or on different objects: no id is returned twice, and the objects of
\* a type hold disjoint, already returned ids.
C19_IdsNeverReused ==
    /\ ~hist.dup
    /\ Keys(episodes) \cap Keys(ep_peer) = {}
    /\ Keys(nodes) \cap Keys(sem_peer) = {}
    /\ \A i \in Keys(episodes) \cup Keys(ep_peer) : <<"ep", i>> \in hist.ids
    /\ \A i \in Keys(nodes) \cup Keys(sem_peer) : <<"sem", i>> \in hist.ids

\* C19 witness: create_node calls on the two SemanticMemory objects, one made
\* while the other had not returned, have both returned, the one on the full
\* object after a node created earlier was pruned
C19_Witness ==
    /\ sem_capacity = BigCapacity
    /\ hist.overlap
    /\ hist.ops = {"create_node", "peer_create_node"}
    /\ \A t \in Threads : pc[t] = Idle
    /\ Keys(sem_peer) # {}
    /\ \E i \in 1..BigCapacity : i \notin Keys(nodes)
    /\ \E i \in Keys(nodes) : i > BigCapacity

----------------------------------------------------------------------------
(* The relationships of SemanticMemory *)

\* The targets of the edges of a relationship list
targets(relationships) == { relationships[k][1] : k \in 1..Len(relationships) }

\* No two edges of the list have the same target
one_edge_per_target(relationships) ==
    \A j, k \in 1..Len(relationships) :
        relationships[j][1] = relationships[k][1] => j = k

\* C21: in every reachable state each node has at most one outbound edge per
\* target id; add_relationship(a, b, s) on an existing edge a -> b overwrites
\* its strength in place without adding an edge, otherwise appends one edge,
\* and it changes no edge of b (no reverse edge) nor of any node other than a.
C21_OneEdgePerTarget ==
    /\ [](\A i \in Keys(nodes) : one_edge_per_target(nodes[i].relationships))
    /\ [][ (calls' # calls /\ last'.op = "add_relationship" /\ last'.result) =>
             LET a == last'.from_id
                 b == last'.to_id
                 before == nodes[a].relationships
                 after == nodes'[a].relationships
             IN  /\ Keys(nodes') = Keys(nodes)
                 /\ \A i \in Keys(nodes) \ {a} : nodes'[i] = nodes[i]
                 /\ nodes' = [nodes EXCEPT ![a].relationships = after]
                 /\ IF b \in targets(before)
                    THEN /\ Len(after) = Len(before)
                         /\ \A k \in 1..Len(before) :
                               after[k] = IF before[k][1] = b
                                          THEN <<b, last'.strength>>
                                          ELSE before[k]
                    ELSE after = Append(before, <<b, last'.strength>>) ]_vars

\* C21 witness: add_relationship(2, 1, s) has overwritten the strength of the
\* edge 2 -> 1 of the full store, whose node 2 keeps its four edges and whose
\* node 1 has none
C21_Witness ==
    /\ sem_capacity = BigCapacity
    /\ last.op = "add_relationship"
    /\ last.result
    /\ last.from_id = 2
    /\ last.to_id = 1
    /\ last.strength # 500
    /\ nodes[2].relationships[1] = <<1, last.strength>>
    /\ Len(nodes[2].relationships) = 4
    /\ nodes[1].relationships = <<>>

\* C22: every stored relationship strength lies in [0, 1] in every reachable
\* state; add_relationship called with a strength outside that range (a
\* negative one, say) is rejected and leaves every node's edge list unchanged.
C22_StrengthInUnitInterval ==
    /\ [](\A i \in Keys(nodes) : \A k \in 1..Len(nodes[i].relationships) :
             /\ 0 <= nodes[i].relationships[k][2]
             /\ nodes[i].relationships[k][2] <= 1000)
    /\ [][ (calls' # calls /\ last'.op = "add_relationship"
                /\ (last'.strength < 0 \/ last'.strength > 1000)) =>
             /\ ~last'.result
             /\ nodes' = nodes ]_vars

\* C24: add_relationship(from_id, to_id, s) returns false when from_id or
\* to_id is not currently in the store (never created, or already pruned), and
\* then no node's edge list and no other state changes; it returns true when
\* both are present, also when from_id = to_id.
C24_AddRelationshipUnknownId ==
    [][ (calls' # calls /\ last'.op = "add_relationship") =>
          /\ last'.result = (last'.from_id \in Keys(nodes) /\ last'.to_id \in Keys(nodes))
          /\ ~last'.result => /\ nodes' = nodes
                              /\ sem_counter' = sem_counter
                              /\ sem_capacity' = sem_capacity ]_vars

\* C24 witness: create_node on the full store has pruned node 1, and
\* add_relationship(2, 1, s) from the held node 2 has returned false
C24_Witness ==
    /\ sem_capacity = BigCapacity
    /\ last.op = "add_relationship"
    /\ ~last.result
    /\ last.from_id = 2
    /\ last.to_id = 1
    /\ 2 \in Keys(nodes)
    /\ 1 \notin Keys(nodes)
    /\ 1 \in 1..sem_counter
    /\ nodes[2].relationships = FullNodes[2].relationships

----------------------------------------------------------------------------
(* The importance of a node *)

\* C23: every node's importance lies in [0, 1] in every reachable state: nodes
\* are created with importance 0 and update_node_importance stores
\* min(1, max(0, value)); update_node_importance on an unknown id changes
\* nothing.
C23_ImportanceInUnitInterval ==
    /\ [](\A i \in Keys(nodes) :
             /\ nodes[i].importance # NaN
             /\ 0 <= nodes[i].importance
             /\ nodes[i].importance <= 1000)
    /\ [][ (calls' # calls /\ last'.op = "update_node_importance") =>
             IF last'.id \in Keys(nodes)
             THEN nodes' = [nodes EXCEPT ![last'.id].importance =
                              LET value == last'.importance
                                  max == IF less(0, value) THEN value ELSE 0
                              IN  IF less(1000, max) THEN 1000 ELSE max]
             ELSE nodes' = nodes ]_vars

----------------------------------------------------------------------------
(* The access counts under several threads *)

\* Every call made so far has returned
AllReturned == \A t \in Threads : pc[t] = Idle

\* The access counts of the entries of a map, added up
RECURSIVE total_access(_, _)
total_access(map, ids) ==
    IF ids = {} THEN 0
    ELSE LET i == CHOOSE j \in ids : TRUE
         IN  map[i].access_count + total_access(map, ids \ {i})

\* C25: when k get_node calls on present ids have run to completion in any
\* interleaving of the threads, with no pruning in between, the access counts
\* are higher by exactly k (each call adds one to the node it names); when k
\* search calls that return every node have completed, every node's count is
\* higher by exactly k.
C25_NoLostNodeAccessIncrement ==
    /\ (AllReturned /\ hist.ops = {"get_node"}) =>
           total_access(nodes, Keys(nodes)) = calls
    /\ (AllReturned /\ hist.ops = {"sem_search"}) =>
           \A i \in Keys(nodes) : nodes[i].access_count = calls

\* C28: recall_episode on a present episode increments that episode's
\* access_count by exactly one per call, also when k calls run concurrently
\* (the counts end exactly k higher), and changes neither the episode's record
\* list, context or importance nor any other episode.
C28_RecallCountsEveryCall ==
    /\ []((AllReturned /\ hist.ops = {"recall_episode"}) =>
             total_access(episodes, Keys(episodes)) = calls)
    /\ [][ \/ episodes' = episodes
           \/ \E i \in Keys(episodes) :
                 episodes' = [episodes EXCEPT ![i].access_count = @ + 1,
                                              ![i].last_accessed = now] ]_vars

\* C28 witness: two recall_episode calls on episode 1, the second made while
\* the first had not returned, and a third have returned; the count is 3 and
\* the record of the episode is still there
C28_Witness ==
    /\ AllReturned
    /\ hist.ops = {"recall_episode"}
    /\ hist.overlap
    /\ calls = MaxCalls
    /\ episodes[1].access_count = MaxCalls
    /\ Len(episodes[1].memories) = 1
    /\ last.result = Some(episodes[1].memories)

----------------------------------------------------------------------------
(* Claims about EpisodicMemory, one caller *)

\* C26: for an episode id not currently in the store (never created, or
\* already pruned), add_memory returns false and recall_episode returns empty,
\* and neither call changes any episode, any record list or the episode count.
C26_UnknownEpisode ==
    [][ (calls' # calls /\ last'.op \in {"add_memory", "recall_episode"}
             /\ last'.id \notin Keys(episodes)) =>
          /\ last'.op = "add_memory" => last'.result = FALSE
          /\ last'.op = "recall_episode" => last'.result = None
          /\ episodes' = episodes
          /\ ep_counter' = ep_counter ]_vars

\* C26 witness: create_episode on the full store has pruned episode 1, and
\* recall_episode of it has returned empty with the other episodes as they were
C26_Witness ==
    /\ ep_capacity = BigCapacity
    /\ last.op = "recall_episode"
    /\ last.id = 1
    /\ last.result = None
    /\ 1 \notin Keys(episodes)
    /\ ep_counter > BigCapacity
    /\ \A i \in 2..BigCapacity : episodes[i] = FullEpisodes[i]

\* C27: EpisodicMemory.search with limit = 0 returns exactly the held episodes
\* for which every context pair of the query equals the episode's context
\* entry, the content (if non-empty) occurs in at least one of the episode's
\* records and the creation time is in the range, each once and paired with
\* all of its records.
C27_EpisodicSearchReturnsMatches ==
    (last.op = "ep_search" /\ last.limit = 0) =>
        LET selected == { i \in Keys(episodes) :
                            /\ \A kv \in last.query.context : kv \in episodes[i].context
                            /\ \/ last.query.content = <<>>
                               \/ \E k \in 1..Len(episodes[i].memories) :
                                     Find(episodes[i].memories[k].content, last.query.content)
                            /\ in_closed_range(episodes[i].timestamp, last.query) }
        IN  /\ Len(last.result) = Cardinality(selected)
            /\ { last.result[k] : k \in 1..Len(last.result) }
                   = { <<i, episodes[i].memories>> : i \in selected }

\* C27 witness: create_episode({k: v}), add_memory(id, r) and a search for the
\* context {k: v} and a content of r have returned the episode with r
C27_Witness ==
    /\ last.op = "ep_search"
    /\ last.limit = 0
    /\ last.query.context = {<<"k", "v">>}
    /\ last.query.content = <<"b">>
    /\ Len(last.result) = 1
    /\ \E r \in EpisodeMemoryInputs : last.result[1][2] = <<r>>
    /\ episodes[last.result[1][1]].context = {<<"k", "v">>}

----------------------------------------------------------------------------
(* The search of SemanticMemory, one caller *)

----------------------------------------------------------------------------
(* prune called directly *)

\* C30: MemoryStore.prune invoked directly by a caller (not from inside store)
\* runs with exclusive access: no retrieve, search, store, update, remove or
\* clear on the same store is inside its critical section while that prune
\* reads or erases records.
C30_DirectPruneExclusive ==
    \A t \in Threads :
        (pc[t].op = "prune" /\ pc[t].at \in {"scan", "erase"}) =>
            \A u \in Threads \ {t} : ~(pc[u].op \in MutatingOps /\ InCS(u))

----------------------------------------------------------------------------
(* The records of an episode *)

\* The records of seq at the indices in K, in the order of seq
RECURSIVE pick(_, _, _)
pick(seq, K, i) ==
    IF i > Len(seq) THEN <<>>
    ELSE (IF i \in K THEN <<seq[i]>> ELSE <<>>) \o pick(seq, K, i + 1)

\* The records add_memory has left of the old ones: all but the appended one
old_records_left(episode_id) ==
    SubSeq(episodes'[episode_id].memories, 1, Len(episodes'[episode_id].memories) - 1)

\* C31: add_memory on an episode that is at its per-episode capacity keeps the
\* highest-scoring records: no record removed by the in-episode pruning has a
\* per-record importance score strictly higher than a record that is kept,
\* and at most floor(0.9 * max_memories_per_episode) of the old records remain
\* before the new one is appended.
C31_PruneMemoriesKeepsHighest ==
    [][ (calls' # calls /\ last'.op = "add_memory" /\ last'.result
             /\ Len(episodes[last'.id].memories) >= max_memories_per_episode) =>
          LET old == episodes[last'.id].memories
              left == old_records_left(last'.id)
          IN  /\ Len(left) <= (9 * max_memories_per_episode) \div 10
              /\ \E K \in SUBSET (1..Len(old)) :
                    /\ left = pick(old, K, 1)
                    /\ \A r \in (1..Len(old)) \ K, k \in K :
                          calculate_memory_importance(old[r])
                              <= calculate_memory_importance(old[k]) ]_vars

\* The per-record importance scores of the records from index i on, added up
RECURSIVE score_sum(_, _)
score_sum(mems, i) ==
    IF i > Len(mems) THEN 0
    ELSE calculate_memory_importance(mems[i]) + score_sum(mems, i + 1)

\* C32: in every reachable state each episode's aggregate importance equals
\* the mean of the per-record importance scores of the records it currently
\* holds (0 for an episode with no records), also after an add_memory that
\* pruned records first.
C32_ImportanceIsMeanOfScores ==
    \A i \in Keys(episodes) :
        IF episodes[i].memories = <<>>
        THEN episodes[i].importance = 0
        ELSE episodes[i].importance =
                 score_sum(episodes[i].memories, 1) \div Len(episodes[i].memories)

\* C32 witness: add_memory on the full episode 1 has pruned its lowest record
\* and appended a record; the importance is the mean of the ten scores
C32_Witness ==
    /\ last.op = "add_memory"
    /\ last.result
    /\ last.full
    /\ last.id = 1
    /\ Len(last.kept) = BigCapacity - 1
    /\ Len(episodes[1].memories) = BigCapacity
    /\ episodes[1].importance > 0
    /\ episodes[1].importance # episode_importance(FullRecords)

\* C33: an episode's record list is always in insertion order: recall_episode
\* returns the surviving records in the order their add_memory calls
\* returned, the in-episode pruning never reorders the records it keeps, and
\* the most recently added record is always last.
C33_RecordsInInsertionOrder ==
    [][ /\ \A i \in Keys(episodes) \cap Keys(episodes') :
              \/ episodes'[i].memories = episodes[i].memories
              \/ /\ last'.op = "add_memory"
                 /\ last'.id = i
                 /\ \E K \in SUBSET (1..Len(episodes[i].memories)) :
                       episodes'[i].memories =
                           Append(pick(episodes[i].memories, K, 1), last'.memory)
        /\ (calls' # calls /\ last'.op = "recall_episode" /\ last'.id \in Keys(episodes)) =>
              /\ last'.result = Some(episodes[last'.id].memories)
              /\ episodes'[last'.id].memories = episodes[last'.id].memories ]_vars

\* C33 witness: after an add_memory that pruned the full episode 1 and
\* appended r, recall_episode(1) has returned the nine surviving records in
\* their old order, followed by r
C33_Witness ==
    /\ last.op = "recall_episode"
    /\ last.id = 1
    /\ \E r \in EpisodeMemoryInputs, j \in 1..BigCapacity :
          last.result = Some(Append(pick(FullRecords, (1..BigCapacity) \ {j}, 1), r))

\* C34: MemoryStore.store(r) with r.id already held replaces that record and
\* removes no other record: the set of other ids held is the same before and
\* after the call, also when the store is at capacity.
C34_ReplaceRemovesNoOther ==
    [][ (calls' # calls /\ last'.op = "store" /\ last'.memory.id \in Keys(memories)) =>
            Keys(memories') \ {last'.memory.id} = Keys(memories) \ {last'.memory.id} ]_vars

\* The ids that have been issued by create_node and are no longer held
removed_ids == (1..sem_counter) \ Keys(nodes)

\* C35: once the target node of an edge has been removed by pruning, the edge
\* never resolves again: every held id has been issued, an issued id that is
\* no longer held is never held again, create_node returns an id that was
\* never issued before, and get_related_nodes returns only nodes that are
\* held.
C35_PrunedTargetNeverResolves ==
    /\ [](Keys(nodes) \subseteq 1..sem_counter)
    /\ [][ /\ removed_ids \subseteq removed_ids'
           /\ (calls' # calls /\ last'.op = "create_node") =>
                 last'.result \notin 1..sem_counter
           /\ (calls' # calls /\ last'.op = "get_related_nodes") =>
                 \A k \in 1..Len(last'.result) :
                     /\ last'.result[k].id \in Keys(nodes)
                     /\ last'.result[k].id \notin removed_ids ]_vars

\* C35 witness: node 2 has an edge to node 1, two create_node calls have
\* pruned node 1 and issued fresh ids, and get_related_nodes(2) has returned
\* the other targets without node 1
C35_Witness ==
    /\ last.op = "get_related_nodes"
    /\ last.id = 2
    /\ last.min_strength = 0
    /\ 2 \in Keys(nodes)
    /\ find_relationship(nodes[2].relationships, 1) > 0
    /\ 1 \in removed_ids
    /\ sem_counter = BigCapacity + 2
    /\ Len(last.result) > 0
    /\ \A k \in 1..Len(last.result) : last.result[k].id # 1

\* C36: MemoryStore.search changes nothing but the access bookkeeping of the
\* records it returns: records that do not match, and matching records cut
\* off by limit, keep their access_count and last-accessed time, and the set
\* of held ids, every record's content, tags, metadata and importance, and
\* size() are unchanged.
C36_SearchFrame ==
    [][ (calls' # calls /\ last'.op = "search") =>
            LET hit == { last'.result[k].id : k \in 1..Len(last'.result) }
            IN  /\ Keys(memories') = Keys(memories)
                /\ Cardinality(Keys(memories')) = Cardinality(Keys(memories))
                /\ capacity' = capacity
                /\ \A i \in Keys(memories) :
                      /\ memories'[i].id = memories[i].id
                      /\ memories'[i].content = memories[i].content
                      /\ memories'[i].tags = memories[i].tags
                      /\ memories'[i].metadata = memories[i].metadata
                      /\ memories'[i].importance = memories[i].importance
                      /\ memories'[i].timestamp = memories[i].timestamp
                      /\ memories'[i].last_modified = memories[i].last_modified
                      /\ i \notin hit =>
                            /\ memories'[i].access_count = memories[i].access_count
                            /\ memories'[i].last_accessed = memories[i].last_accessed ]_vars

\* C36 witness: at a later time a search with limit 1 has returned one record
\* and bumped it, a matching record was cut off, another record does not
\* match, and neither of the two has been touched
C36_Witness ==
    /\ last.op = "search"
    /\ last.limit = 1
    /\ Len(last.result) = 1
    /\ now > 0
    /\ memories[last.result[1].id].last_accessed = now
    /\ \E i \in Keys(memories) \ returned_ids :
          /\ matches_query(memories[i], last.query)
          /\ memories[i].last_accessed = 0
    /\ \E i \in Keys(memories) :
          /\ ~matches_query(memories[i], last.query)
          /\ memories[i].access_count = 0
          /\ memories[i].last_accessed = 0

----------------------------------------------------------------------------
(* The reads of EpisodicMemory and SemanticMemory *)

\* An EpisodicMemory holding two episodes and a SemanticMemory holding
\* BigCapacity nodes, node 2 with four edges, at any time of the clock
ReadInit ==
    /\ MemoryStoreUnused
    /\ ep_capacity = BigCapacity
    /\ max_memories_per_episode = BigCapacity
    /\ episodes = TwoEpisodes
    /\ ep_counter = Cardinality(ConcEpisodeIds)
    /\ ep_peer = <<>>
    /\ sem_capacity = BigCapacity
    /\ nodes = FullNodes
    /\ sem_counter = BigCapacity
    /\ sem_peer = <<>>
    /\ now \in 0..MaxTime
    /\ last = [op |-> "init"]
    /\ calls = 0
    /\ ConcInit

ReadNext ==
    \/ RecallEpisode
    \/ EpisodicSearch
    \/ AddRelationship
    \/ GetNode
    \/ GetRelatedNodes

ReadSpec == ReadInit /\ [][ReadNext]_vars

\* C37: SemanticMemory.get_related_nodes and EpisodicMemory.search are pure
\* reads: a call of either changes no node's or episode's access_count or
\* last-accessed time and no other state of any store, whether the ids it
\* is given or finds are known or not.
C37_PureReads ==
    [][ (calls' # calls /\ last'.op \in {"get_related_nodes", "ep_search"}) =>
            /\ nodes' = nodes
            /\ episodes' = episodes
            /\ <<memVars, epVars, semVars>>' = <<memVars, epVars, semVars>> ]_vars

\* C37 witness: after recall_episode(1) and get_node(2) have left their
\* marks, get_related_nodes(2) has returned several nodes at a later time and
\* the marks are what they were: one access each, none on any other node
C37_Witness ==
    /\ last.op = "get_related_nodes"
    /\ last.id = 2
    /\ Len(last.result) >= 2
    /\ now > 0
    /\ episodes[1].access_count = 1
    /\ nodes[2].access_count = 1
    /\ \A i \in Keys(nodes) \ {2} : nodes[i].access_count = 0 /\ nodes[i].last_accessed = 0

----------------------------------------------------------------------------
(* The create calls of EpisodicMemory and SemanticMemory, one caller *)

\* An EpisodicMemory and a SemanticMemory of the same capacity, empty or,
\* with capacity BigCapacity, full
CreateInit ==
    /\ MemoryStoreUnused
    /\ ep_capacity \in Capacities
    /\ max_memories_per_episode = MaxCapacity
    /\ episodes = IF ep_capacity = BigCapacity THEN FullEpisodes ELSE <<>>
    /\ ep_counter = IF ep_capacity = BigCapacity THEN BigCapacity ELSE 0
    /\ ep_peer = <<>>
    /\ sem_capacity = ep_capacity
    /\ nodes = IF sem_capacity = BigCapacity THEN FullNodes ELSE <<>>
    /\ sem_counter = IF sem_capacity = BigCapacity THEN BigCapacity ELSE 0
    /\ sem_peer = <<>>
    /\ now = 0
    /\ last = [op |-> "init"]
    /\ calls = 0
    /\ ConcInit

CreateNext ==
    \/ CreateEpisode
    \/ AddMemory
    \/ CreateNode
    \/ GetNode
    \/ Tick

CreateSpec == CreateInit /\ [][CreateNext]_vars

\* C38: a create call never evicts what it creates. With one caller, the id
\* returned by create_episode (create_node) is held when the call returns,
\* also when the store was at capacity and pruned, and the add_memory
\* (get_node) of that id that follows immediately returns true (a node).
C38_CreateKeepsWhatItCreates ==
    [][ /\ (calls' # calls /\ last'.op = "create_episode") =>
              last'.result \in Keys(episodes')
        /\ (calls' # calls /\ last'.op = "create_node") =>
              last'.result \in Keys(nodes')
        /\ (calls' # calls /\ last.op = "create_episode"
                /\ last'.op = "add_memory" /\ last'.id = last.result) =>
              last'.result = TRUE
        /\ (calls' # calls /\ last.op = "create_node"
                /\ last'.op = "get_node" /\ last'.id = last.result) =>
              last'.result # None ]_vars

\* C38 witness: create_node on the full SemanticMemory and create_episode on
\* the full EpisodicMemory have each pruned and issued id BigCapacity + 1,
\* and add_memory of the new episode has returned true
C38_Witness ==
    /\ last.op = "add_memory"
    /\ last.id = BigCapacity + 1
    /\ last.result
    /\ ep_capacity = BigCapacity
    /\ ep_counter = BigCapacity + 1
    /\ Cardinality(Keys(episodes)) = BigCapacity
    /\ Len(episodes[BigCapacity + 1].memories) = 1
    /\ sem_counter = BigCapacity + 1
    /\ Cardinality(Keys(nodes)) = BigCapacity
    /\ (BigCapacity + 1) \in Keys(nodes)

----------------------------------------------------------------------------
(* solana::toolkit::State (src/src/memory/semantic.cpp, from line 288): the
   transaction table and the cache, called by the threads. Signatures and
   keys (std::string in the source) are numbered, 0 standing for the empty
   string; times are in ticks of the clock. *)

\* static constexpr size_t MAX_TRANSACTIONS
MAX_TRANSACTIONS == 10000

\* static constexpr size_t MAX_CACHE_SIZE
MAX_CACHE_SIZE == 1000

\* static constexpr auto TRANSACTION_TTL = std::chrono::hours(24), in hours
TRANSACTION_TTL == 24

\* struct State::Transaction (error and data play no part in what is modelled)
Transaction(signature, status, timestamp, slot) ==
    [signature |-> signature, status |-> status, timestamp |-> timestamp, slot |-> slot]

\* struct State::CacheEntry<T>
CacheEntry(value, expiry, is_valid) ==
    [value |-> value, expiry |-> expiry, is_valid |-> is_valid]

\* State::validate_transaction
validate_transaction(transaction) ==
    /\ transaction.signature # 0
    /\ transaction.status # ""
    /\ transaction.slot > 0

\* The loop of cleanup_old_transactions: the table it leaves at time t
cleanup_old_transactions(transactions, t) ==
    Restrict(transactions,
             { sig \in Keys(transactions) :
                 ~(t - transactions[sig].timestamp > TRANSACTION_TTL * TicksPerHour) })

\* The loop of cleanup_expired_cache: the cache it leaves at time t
cleanup_expired_cache(cache, t) ==
    Restrict(cache,
             { key \in Keys(cache) :
                 ~(~cache[key].is_valid \/ cache[key].expiry < t) })

\* container[key] = value
assign(container, key, value) ==
    [k \in Keys(container) \cup {key} |-> IF k = key THEN value ELSE container[k]]

\* cache_set from its second size test on: cache_.erase(cache_.begin()) when
\* the cache is still full (begin() of an unordered_map is any entry), then
\* cache_[key] = entry. The caches it can leave.
cache_set_insert(cache, key, entry) ==
    IF Cardinality(Keys(cache)) >= MAX_CACHE_SIZE
    THEN { assign(Restrict(cache, Keys(cache) \ {first}), key, entry) : first \in Keys(cache) }
    ELSE { assign(cache, key, entry) }

\* A table of MAX_TRANSACTIONS transactions as that many track_transaction
\* calls leave it; the first two were tracked more than TRANSACTION_TTL ago
FullTransactions ==
    [sig \in 1..MAX_TRANSACTIONS |->
        Transaction(sig, "confirmed",
                    IF sig <= 2 THEN 0 - (TRANSACTION_TTL + 1) * TicksPerHour ELSE 0, 1)]

\* A cache of MAX_CACHE_SIZE entries as that many cache_set calls leave it;
\* the first two have expired
FullCache ==
    [key \in 1..MAX_CACHE_SIZE |->
        CacheEntry(0, IF key <= 2 THEN 0 - 1 ELSE MaxTime + 1, TRUE)]

\* The transactions the callers track: one held, one new, one with an empty
\* signature
TransactionInputs ==
    { Transaction(sig, "pending", 0, 1) : sig \in {0, 1, MAX_TRANSACTIONS + 1} }

\* The keys the callers set, and the times to live (in ticks)
CacheKeyInputs == {1, MAX_CACHE_SIZE + 1}

TtlInputs == {0, MaxTime + 1}

\* A call of the State object starts: its arguments are bound and the
\* constructor of its std::lock_guard is reached
StateCall(t, op, at, args) ==
    /\ pc[t] = Idle
    /\ calls < MaxCalls
    /\ calls' = calls + 1
    /\ pc' = [pc EXCEPT ![t] = [op |-> op, at |-> at]]
    /\ local' = [local EXCEPT ![t] = args]
    /\ UNCHANGED <<memVars, epVars, semVars, now, last, lock, bumps, hist, stateVars>>

\* The thread moves to another place of its call
StateGoto(t, at) == pc' = [pc EXCEPT ![t] = [op |-> pc[t].op, at |-> at]]

\* The call of the thread ends
StateReturn(t) ==
    /\ pc' = [pc EXCEPT ![t] = Idle]
    /\ local' = [local EXCEPT ![t] = <<>>]

\* State::track_transaction is called
TrackTransactionCall(t) ==
    \E transaction \in TransactionInputs :
        StateCall(t, "track_transaction", "lock", [transaction |-> transaction])

\* track_transaction, line 422: std::lock_guard lock(transactions_mutex_)
TrackTransactionLock(t) ==
    /\ pc[t] = [op |-> "track_transaction", at |-> "lock"]
    /\ transactions_mutex_ = {}
    /\ transactions_mutex_' = {t}
    /\ StateGoto(t, "body")
    /\ UNCHANGED <<memVars, epVars, semVars, now, last, calls, lock, local, bumps, hist,
                   transactions_, cache_, cache_mutex_>>

\* track_transaction, lines 424-434, up to the call of cleanup_old_transactions
\* when the table is full, to the return otherwise
TrackTransactionBody(t) ==
    /\ pc[t] = [op |-> "track_transaction", at |-> "body"]
    /\ LET transaction == local[t].transaction
       IN  IF ~validate_transaction(transaction)
           THEN /\ last' = [op |-> "track_transaction", transaction |-> transaction,
                            result |-> "rejected"]
                /\ transactions_mutex_' = {}
                /\ StateReturn(t)
                /\ UNCHANGED transactions_
           ELSE IF Cardinality(Keys(transactions_)) >= MAX_TRANSACTIONS
           THEN /\ StateGoto(t, "cleanup_lock")
                /\ UNCHANGED <<last, local, transactions_, transactions_mutex_>>
           ELSE /\ transactions_' = assign(transactions_, transaction.signature, transaction)
                /\ last' = [op |-> "track_transaction", transaction |-> transaction,
                            result |-> "returned"]
                /\ transactions_mutex_' = {}
                /\ StateReturn(t)
    /\ UNCHANGED <<memVars, epVars, semVars, now, calls, lock, bumps, hist,
                   cache_, cache_mutex_>>

\* State::cleanup_old_transactions is called from outside
CleanupOldTransactionsCall(t) ==
    StateCall(t, "cleanup_old_transactions", "cleanup_lock", <<>>)

\* cleanup_old_transactions, line 578: std::lock_guard lock(transactions_mutex_).
\* std::mutex is not recursive: when the calling thread owns it already the
\* behaviour is undefined, and the thread blocks forever (pthread's default
\* mutex) or lock() throws std::system_error, which leaves track_transaction
\* through its own lock_guard.
CleanupOldTransactionsLock(t) ==
    /\ pc[t].op \in {"track_transaction", "cleanup_old_transactions"}
    /\ pc[t].at = "cleanup_lock"
    /\ \/ /\ transactions_mutex_ = {}
          /\ transactions_mutex_' = {t}
          /\ StateGoto(t, "cleanup")
          /\ UNCHANGED <<last, local>>
       \/ /\ transactions_mutex_ = {t}
          /\ StateGoto(t, "blocked")
          /\ UNCHANGED <<last, local, transactions_mutex_>>
       \/ /\ transactions_mutex_ = {t}
          /\ last' = [op |-> pc[t].op, transaction |-> local[t].transaction,
                      result |-> "system_error"]
          /\ transactions_mutex_' = {}
          /\ StateReturn(t)
    /\ UNCHANGED <<memVars, epVars, semVars, now, calls, lock, bumps, hist,
                   transactions_, cache_, cache_mutex_>>

\* cleanup_old_transactions, lines 580-588, and what follows its return: the
\* caller's return, or lines 433-434 of track_transaction
CleanupOldTransactionsBody(t) ==
    /\ pc[t].op \in {"track_transaction", "cleanup_old_transactions"}
    /\ pc[t].at = "cleanup"
    /\ LET cleaned == cleanup_old_transactions(transactions_, now)
       IN  IF pc[t].op = "track_transaction"
           THEN /\ transactions_' = assign(cleaned, local[t].transaction.signature,
                                           local[t].transaction)
                /\ last' = [op |-> "track_transaction",
                            transaction |-> local[t].transaction, result |-> "returned"]
           ELSE /\ transactions_' = cleaned
                /\ last' = [op |-> "cleanup_old_transactions", result |-> "returned"]
    /\ transactions_mutex_' = {}
    /\ StateReturn(t)
    /\ UNCHANGED <<memVars, epVars, semVars, now, calls, lock, bumps, hist,
                   cache_, cache_mutex_>>

\* State::cache_set is called
CacheSetCall(t) ==
    \E key \in CacheKeyInputs, ttl \in TtlInputs :
        StateCall(t, "cache_set", "lock", [key |-> key, ttl |-> ttl])

\* cache_set, line 763: std::lock_guard lock(cache_mutex_)
CacheSetLock(t) ==
    /\ pc[t] = [op |-> "cache_set", at |-> "lock"]
    /\ cache_mutex_ = {}
    /\ cache_mutex_' = {t}
    /\ StateGoto(t, "body")
    /\ UNCHANGED <<memVars, epVars, semVars, now, last, calls, lock, local, bumps, hist,
                   transactions_, cache_, transactions_mutex_>>

\* cache_set, lines 765-776, up to the call of cleanup_expired_cache when the
\* cache is full, to the return otherwise
CacheSetBody(t) ==
    /\ pc[t] = [op |-> "cache_set", at |-> "body"]
    /\ LET entry == CacheEntry(0, now + local[t].ttl, TRUE)
       IN  IF Cardinality(Keys(cache_)) >= MAX_CACHE_SIZE
           THEN /\ StateGoto(t, "cleanup_lock")
                /\ local' = [local EXCEPT ![t] = [key |-> local[t].key, ttl |-> local[t].ttl,
                                                   entry |-> entry]]
                /\ UNCHANGED <<last, cache_, cache_mutex_>>
           ELSE /\ cache_' = assign(cache_, local[t].key, entry)
                /\ last' = [op |-> "cache_set", key |-> local[t].key, ttl |-> local[t].ttl,
                            result |-> "returned"]
                /\ cache_mutex_' = {}
                /\ StateReturn(t)
    /\ UNCHANGED <<memVars, epVars, semVars, now, calls, lock, bumps, hist,
                   transactions_, transactions_mutex_>>

\* State::cleanup_expired_cache is called from outside
CleanupExpiredCacheCall(t) ==
    StateCall(t, "cleanup_expired_cache", "cleanup_lock", <<>>)

\* cleanup_expired_cache, line 547: std::lock_guard lock(cache_mutex_), with
\* the same undefined behaviour when the calling thread owns cache_mutex_
CleanupExpiredCacheLock(t) ==
    /\ pc[t].op \in {"cache_set", "cleanup_expired_cache"}
    /\ pc[t].at = "cleanup_lock"
    /\ \/ /\ cache_mutex_ = {}
          /\ cache_mutex_' = {t}
          /\ StateGoto(t, "cleanup")
          /\ UNCHANGED <<last, local>>
       \/ /\ cache_mutex_ = {t}
          /\ StateGoto(t, "blocked")
          /\ UNCHANGED <<last, local, cache_mutex_>>
       \/ /\ cache_mutex_ = {t}
          /\ last' = [op |-> pc[t].op, key |-> local[t].key, ttl |-> local[t].ttl,
                      result |-> "system_error"]
          /\ cache_mutex_' = {}
          /\ StateReturn(t)
    /\ UNCHANGED <<memVars, epVars, semVars, now, calls, lock, bumps, hist,
                   transactions_, cache_, transactions_mutex_>>

\* cleanup_expired_cache, lines 549-560, and what follows its return: the
\* caller's return, or lines 770-776 of cache_set
CleanupExpiredCacheBody(t) ==
    /\ pc[t].op \in {"cache_set", "cleanup_expired_cache"}
    /\ pc[t].at = "cleanup"
    /\ LET cleaned == cleanup_expired_cache(cache_, now)
       IN  IF pc[t].op = "cache_set"
           THEN /\ cache_' \in cache_set_insert(cleaned, local[t].key, local[t].entry)
                /\ last' = [op |-> "cache_set", key |-> local[t].key, ttl |-> local[t].ttl,
                            result |-> "returned"]
           ELSE /\ cache_' = cleaned
                /\ last' = [op |-> "cleanup_expired_cache", result |-> "returned"]
    /\ cache_mutex_' = {}
    /\ StateReturn(t)
    /\ UNCHANGED <<memVars, epVars, semVars, now, calls, lock, bumps, hist,
                   transactions_, transactions_mutex_>>

\* A State whose transaction table holds MAX_TRANSACTIONS entries, or one
\* less, and whose cache is empty; the memory classes are not used
TransactionInit ==
    /\ MemoryStoreUnused
    /\ EpisodicUnused
    /\ SemanticUnused
    /\ now = 0
    /\ last = [op |-> "init"]
    /\ calls = 0
    /\ pc = [t \in Threads |-> Idle]
    /\ lock = [s \in Stores |-> [writer |-> {}, readers |-> {}]]
    /\ local = [t \in Threads |-> <<>>]
    /\ bumps = [i \in Ids |-> 0]
    /\ hist = [ops |-> {}, ids |-> {}, dup |-> FALSE, overlap |-> FALSE]
    /\ transactions_ \in { FullTransactions,
                           Restrict(FullTransactions, 1..(MAX_TRANSACTIONS - 1)) }
    /\ cache_ = [i \in {} |-> 0]
    /\ transactions_mutex_ = {}
    /\ cache_mutex_ = {}

TransactionNext ==
    \/ \E t \in Threads :
          \/ TrackTransactionCall(t)
          \/ TrackTransactionLock(t)
          \/ TrackTransactionBody(t)
          \/ CleanupOldTransactionsCall(t)
          \/ CleanupOldTransactionsLock(t)
          \/ CleanupOldTransactionsBody(t)
    \/ Tick

TransactionSpec == TransactionInit /\ [][TransactionNext]_vars

\* A State whose cache holds MAX_CACHE_SIZE entries, or one less, and whose
\* transaction table is empty; the memory classes are not used
CacheInit ==
    /\ MemoryStoreUnused
    /\ EpisodicUnused
    /\ SemanticUnused
    /\ now = 0
    /\ last = [op |-> "init"]
    /\ calls = 0
    /\ pc = [t \in Threads |-> Idle]
    /\ lock = [s \in Stores |-> [writer |-> {}, readers |-> {}]]
    /\ local = [t \in Threads |-> <<>>]
    /\ bumps = [i \in Ids |-> 0]
    /\ hist = [ops |-> {}, ids |-> {}, dup |-> FALSE, overlap |-> FALSE]
    /\ transactions_ = [i \in {} |-> 0]
    /\ cache_ \in { FullCache, Restrict(FullCache, 1..(MAX_CACHE_SIZE - 1)) }
    /\ transactions_mutex_ = {}
    /\ cache_mutex_ = {}

CacheNext ==
    \/ \E t \in Threads :
          \/ CacheSetCall(t)
          \/ CacheSetLock(t)
          \/ CacheSetBody(t)
          \/ CleanupExpiredCacheCall(t)
          \/ CleanupExpiredCacheLock(t)
          \/ CleanupExpiredCacheBody(t)
    \/ Tick

CacheSpec == CacheInit /\ [][CacheNext]_vars

\* C39: State.track_transaction with a valid transaction returns when the
\* table already holds MAX_TRANSACTIONS entries: no thread inside
\* track_transaction is at the lock of cleanup_old_transactions, or blocked
\* in it, while it owns transactions_mutex_ itself, and no track_transaction
\* call of a valid transaction ends in another way than by returning.
C39_TrackTransactionReturns ==
    /\ \A t \in Threads :
          ~(/\ pc[t].op = "track_transaction"
            /\ pc[t].at \in {"cleanup_lock", "blocked"}
            /\ t \in transactions_mutex_)
    /\ (last.op = "track_transaction" /\ validate_transaction(last.transaction)) =>
          last.result = "returned"

\* C40: State.cache_set returns when the cache already holds MAX_CACHE_SIZE
\* entries: no thread inside cache_set is at the lock of
\* cleanup_expired_cache, or blocked in it, while it owns cache_mutex_
\* itself, no cache_set call ends in another way than by returning, and when
\* a cache_set call returns the cache holds at most MAX_CACHE_SIZE entries
\* and contains the key just set.
C40_CacheSetReturns ==
    /\ [](\A t \in Threads :
             ~(/\ pc[t].op = "cache_set"
               /\ pc[t].at \in {"cleanup_lock", "blocked"}
               /\ t \in cache_mutex_))
    /\ [](last.op = "cache_set" => last.result = "returned")
    /\ [][ \A t \in Threads :
              (pc[t].op = "cache_set" /\ pc'[t] = Idle /\ last'.result = "returned") =>
                  /\ Cardinality(Keys(cache_')) <= MAX_CACHE_SIZE
                  /\ last'.key \in Keys(cache_') ]_vars

====
